---- MODULE Spec2Model ----
(***************************************************************************)
(* Content & generation pipeline of the QR code generator:                 *)
(*   - QRGeneratorFactory and its three built-in strategies                *)
(*     (qr-core generator factory, src/unnamed/part_007);                  *)
(*   - IndexedDBProvider and LocalStorageProvider                          *)
(*     (src/packages/qr-core/src/storage/local-storage.ts).                *)
(*                                                                         *)
(* Asynchronous methods are modelled at the granularity of their awaits:   *)
(* one action resumes a call with the outcome of the promise it awaits and *)
(* runs it, synchronously, up to its next await or its return.             *)
(***************************************************************************)
EXTENDS Integers, Sequences, FiniteSets, TLC

\* ------------------------------------------------------------------ bounds
\* generate() calls that may be in flight at the same time (SpecConc)
MaxOverlap == 2
\* registerStrategy calls after the three of the constructor (SpecGen)
MaxRegistrations == 1
\* registerStrategy calls after the three of the constructor (SpecReg)
MaxRegisterOnly == 3
\* registerStrategy calls that may fall inside a generate() call
MaxRacing == 2
\* priorities of third-party strategies are drawn from 0..MaxPriority
MaxPriority == 2
\* longest request content, in characters
MaxContentLen == 1
\* record ids are 1..MaxIds
MaxIds == 2
\* the clock reads 0..MaxNow
MaxNow == 1
\* records in one import() call
MaxImport == 2
\* limit and offset of a list() call are undefined or in 0..MaxPage
MaxPage == 2
\* storage calls that overlap one another on one provider
MaxStorageCalls == 2
\* createStorageProvider() calls in one process
MaxCreated == 3
\* whitespace characters before and after an input
MaxPad == 1
\* characters of a URL input after its protocol
MaxUrlRest == 3
\* characters of a phone input before its run of digits
MaxPhoneRest == 3
\* characters of an email input before its domain
MaxEmailRest == 3
\* isAvailable() and generate() calls on one QRiousStrategy
MaxQRiousCalls == 3
\* generate() calls of one useQRGenerator
MaxGenerations == 3
\* reset() calls of one useQRGenerator
MaxResets == 2
\* overlapping operations on one IndexedDBProvider whose database is opening
MaxOpening == 3

\* ---------------------------------------------------------------- constants
\* const { content, size = 400, ... } = options
DefaultSize == 400
\* if (normalized.length > 2000)
MaxUrlLength == 2000
\* if (trimmed.length > 4000) ... else if (trimmed.length > 2000)
MaxTextLength == 4000
DenseTextLength == 2000
\* if (trimmed.length > 254)
MaxEmailLength == 254
\* if (cleaned.replace(/\+/, '').length < 7) ... else if (cleaned.length > 15)
MinPhoneLength == 7
MaxPhoneLength == 15

VARIABLES
    strategies,             \* QRGeneratorFactory.strategies (the live array)
    lastSuccessfulStrategy, \* QRGeneratorFactory.lastSuccessfulStrategy
    calls,                  \* the generate() calls in flight, by call slot
    registered,             \* history: the strategies in registration order
    trace,                  \* history: what the watched call has invoked so far
    watching,               \* history: whether `trace` is being recorded
    windowDefined,          \* typeof window !== 'undefined'
    now,                    \* Date.now()
    localStorageItem,       \* localStorage's item under LS_KEY
    idb,                    \* IndexedDBProvider: db, initPromise; the object store
    lastOp,                 \* history: the storage operation called last
    inserted,               \* history: the stored ids in order of first insertion
    ops,                    \* the storage calls in flight on one provider
    indexedDBInWindow,      \* 'indexedDB' in window
    created,                \* history: what createStorageProvider() returned
    validation,             \* a validator or encoder call: its input and its result
    qrious,                 \* QRiousStrategy: qriousLoaded, window.QRious, script loads
    hook,                   \* useQRGenerator: its state, its ref and its pending calls
    opener                  \* IndexedDBProvider.init under overlap: the open request

vars == <<strategies, lastSuccessfulStrategy, calls, registered, trace, watching,
          windowDefined, now, localStorageItem, idb, lastOp, inserted, ops,
          indexedDBInWindow, created, validation, qrious, hook, opener>>

\* the state of the units that are modelled on their own
unitVars == <<validation, qrious, hook, opener>>
storeVars == <<localStorageItem, idb, lastOp, inserted, ops, indexedDBInWindow, created,
               unitVars>>
\* what the sequential storage calls leave alone
otherVars == <<now, ops, indexedDBInWindow, created, unitVars>>
factoryVars == <<strategies, lastSuccessfulStrategy, calls, registered, trace, watching,
                 windowDefined>>

\* The value of an unset optional field.
Undefined == "undefined"

\* ------------------------------------------------------------------ strings
\* A string is a sequence of characters. " " is whitespace, "S" stands for a
\* lone surrogate code unit (the input encodeURIComponent rejects).
Chars == {" ", "a", "S"}
Whitespace == {" "}

RECURSIVE TrimStart(_)
TrimStart(s) ==
    IF s # <<>> /\ Head(s) \in Whitespace THEN TrimStart(Tail(s)) ELSE s

RECURSIVE TrimEnd(_)
TrimEnd(s) ==
    IF s # <<>> /\ s[Len(s)] \in Whitespace
    THEN TrimEnd(SubSeq(s, 1, Len(s) - 1))
    ELSE s

\* String.prototype.trim
Trim(s) == TrimEnd(TrimStart(s))

RECURSIVE SeqsUpTo(_, _)
SeqsUpTo(S, n) ==
    IF n = 0 THEN {<<>>}
    ELSE LET shorter == SeqsUpTo(S, n - 1)
         IN shorter \cup {Append(s, ch) : s \in {t \in shorter : Len(t) = n - 1}, ch \in S}

\* encodeURIComponent: throws URIError on a lone surrogate, escapes a space.
EncodeChar(ch) == IF ch = " " THEN <<"%", "2", "0">> ELSE <<ch>>

RECURSIVE EncodeChars(_)
EncodeChars(s) ==
    IF s = <<>> THEN <<>> ELSE EncodeChar(Head(s)) \o EncodeChars(Tail(s))

EncodeURIComponent(s) ==
    IF \E i \in 1..Len(s) : s[i] = "S"
    THEN [threw |-> TRUE, value |-> <<>>]
    ELSE [threw |-> FALSE, value |-> EncodeChars(s)]

\* -------------------------------------------------------- generation types
\* QRGenerationOptions: content may be missing at run time (options.content
\* undefined); size and errorCorrectionLevel take their defaults.
Options == [present : BOOLEAN, content : SeqsUpTo(Chars, MaxContentLen)]

RequestOptions == {o \in Options : o.present \/ o.content = <<>>}

\* The three strategies the constructor registers, and third-party ones.
QRious == [sid |-> 1, name |-> "qrious", priority |-> 1, kind |-> "qrious"]
GoogleCharts == [sid |-> 2, name |-> "google-charts", priority |-> 2, kind |-> "google-charts"]
QRServer == [sid |-> 3, name |-> "qr-server", priority |-> 3, kind |-> "qr-server"]

CustomNames == {"custom"}

SuccessResult(s, url, options) ==
    [success |-> TRUE, data |-> url, dataUrl |-> url, strategy |-> s.name,
     timestamp |-> now,
     metadata |-> [size |-> DefaultSize, errorCorrectionLevel |-> "M",
                   contentLength |-> Len(options.content)]]

\* Mutant of FailureResult: the message is dropped.
FailureResultNoError(message) ==
    [success |-> FALSE, timestamp |-> now]

FailureResult(message) ==
    [success |-> FALSE, error |-> message, timestamp |-> now]

\* What an awaited strategy.generate() settles with.
Returned(r) == [threw |-> FALSE, value |-> <<r>>]
Threw == [threw |-> TRUE, value |-> <<>>]

\* QRiousStrategy.generate: the script load may fail, the QRious constructor
\* may throw an Error or something else; every failure is caught.
QRiousGenerate(s, options) ==
    IF ~windowDefined
    THEN {Returned(FailureResult("window is not defined"))}
    ELSE {Returned(SuccessResult(s, <<"data:image/png", options.content>>, options)),
          Returned(FailureResult("Failed to load QRious library")),
          Returned(FailureResult("QRious generation failed"))}

\* GoogleChartsStrategy.generate
GoogleChartsGenerate(s, options) ==
    LET encodedData == EncodeURIComponent(options.content)
    IN IF encodedData.threw
       THEN {Returned(FailureResult("URI malformed"))}
       ELSE {Returned(SuccessResult(s, <<"chart.googleapis.com", encodedData.value>>, options))}

\* QRServerStrategy.generate
QRServerGenerate(s, options) ==
    LET encodedData == EncodeURIComponent(options.content)
    IN IF encodedData.threw
       THEN {Returned(FailureResult("URI malformed"))}
       ELSE {Returned(SuccessResult(s, <<"api.qrserver.com", encodedData.value>>, options))}

\* A registered third-party strategy: succeeds, fails or throws.
CustomGenerate(s, options) ==
    {Returned(SuccessResult(s, <<s.name, options.content>>, options)),
     Returned(FailureResult("custom strategy failed")),
     Threw}

\* strategy.generate(options): the outcomes the awaited promise can have
StrategyGenerate(s, options) ==
    CASE s.kind = "qrious" -> QRiousGenerate(s, options)
      [] s.kind = "google-charts" -> GoogleChartsGenerate(s, options)
      [] s.kind = "qr-server" -> QRServerGenerate(s, options)
      [] OTHER -> CustomGenerate(s, options)

\* strategy.isAvailable(): "true", "false" or "throw"
StrategyIsAvailable(s) ==
    CASE s.kind = "qrious" -> IF windowDefined THEN {"true", "false"} ELSE {"false"}
      [] s.kind \in {"google-charts", "qr-server"} ->
            {IF windowDefined THEN "true" ELSE "false"}
      [] OTHER -> {"true", "false", "throw"}

\* ------------------------------------------------------------ registration
\* (a, b) => a.priority - b.priority
ComparePriority(a, b) == a.priority - b.priority

\* Mutant of InsertSorted: x goes before the elements it compares equal to.
InsertSortedUnstable(sorted, x) ==
    LET k == Cardinality({i \in 1..Len(sorted) : ComparePriority(sorted[i], x) < 0})
    IN SubSeq(sorted, 1, k) \o <<x>> \o SubSeq(sorted, k + 1, Len(sorted))

\* One insertion of the stable sort: x goes after every element that does
\* not compare greater than it.
InsertSorted(sorted, x) ==
    LET k == Cardinality({i \in 1..Len(sorted) : ComparePriority(sorted[i], x) <= 0})
    IN SubSeq(sorted, 1, k) \o <<x>> \o SubSeq(sorted, k + 1, Len(sorted))

\* Array.prototype.sort with ComparePriority (stable)
RECURSIVE SortByPriority(_)
SortByPriority(list) ==
    IF list = <<>> THEN <<>>
    ELSE InsertSorted(SortByPriority(SubSeq(list, 1, Len(list) - 1)), list[Len(list)])

\* registerStrategy: push, then sort the whole array
RegisterStrategy(list, s) == SortByPriority(Append(list, s))

\* ------------------------------------------------------------------ engine
ContentRequired == FailureResult("Content is required")
AllFailed == FailureResult("All generation strategies failed")

\* Mutant of ContentMissing: the content is not trimmed.
ContentMissingNoTrim(options) ==
    \/ ~options.present
    \/ options.content = <<>>

\* !options.content || !options.content.trim()
ContentMissing(options) ==
    \/ ~options.present
    \/ options.content = <<>>
    \/ Trim(options.content) = <<>>

\* this.strategies.find(s => s.name === name): the first match, if any
Find(list, name) ==
    LET hits == {i \in 1..Len(list) : list[i].name = name}
    IN IF hits = {} THEN <<>>
       ELSE <<list[CHOOSE i \in hits : \A j \in hits : i <= j]>>

CallSlots == 1..MaxOverlap

\* The slot whose calls have their history recorded in `trace`.
Watched == 1

NoTrace ==
    [log |-> <<>>, outcomes |-> <<>>, memoAtStart |-> Undefined, known |-> 0,
     listChanged |-> FALSE]

IdleCall ==
    [pc |-> "idle", options |-> [present |-> FALSE, content |-> <<>>],
     lastStrategy |-> <<>>, index |-> 0, strategy |-> <<>>,
     settled |-> "pending", result |-> <<>>]

Traced(c) == watching /\ c = Watched

\* A call together with its history (the history of an untraced call is
\* computed and dropped).
WithTrace(call, t) ==
    [pc |-> call.pc, options |-> call.options, lastStrategy |-> call.lastStrategy,
     index |-> call.index, strategy |-> call.strategy, settled |-> call.settled,
     result |-> call.result,
     log |-> t.log, outcomes |-> t.outcomes, memoAtStart |-> t.memoAtStart,
     known |-> t.known,
     listChanged |-> t.listChanged]

CallOf(full) ==
    [pc |-> full.pc, options |-> full.options, lastStrategy |-> full.lastStrategy,
     index |-> full.index, strategy |-> full.strategy, settled |-> full.settled,
     result |-> full.result]

TraceOf(full) ==
    [log |-> full.log, outcomes |-> full.outcomes, memoAtStart |-> full.memoAtStart,
     known |-> full.known,
     listChanged |-> full.listChanged]

Full(c) == WithTrace(calls[c], IF Traced(c) THEN trace ELSE NoTrace)

Invoked(call, s, method, phase) ==
    Append(call.log, [sid |-> s.sid, method |-> method, phase |-> phase])

Resolve(call, r) ==
    [call EXCEPT !.pc = "done", !.settled = "resolved", !.result = <<r>>]

Reject(call) ==
    [call EXCEPT !.pc = "done", !.settled = "rejected"]

\* for (const strategy of this.strategies): the next step of the array
\* iterator, on the live array, and the body up to its first await; after
\* the loop, the exhaustion result.
LoopNext(call) ==
    IF call.index < Len(strategies)
    THEN LET s == strategies[call.index + 1]
         IN [call EXCEPT !.index = call.index + 1, !.strategy = <<s>>,
                         !.pc = "scanAvail",
                         !.log = Invoked(call, s, "isAvailable", "scan")]
    ELSE Resolve(call, AllFailed)

\* generate(options), up to its first await
GenerateBegin(call, options) ==
    LET begun == [call EXCEPT !.options = options,
                              !.memoAtStart = lastSuccessfulStrategy,
                              !.known = Len(strategies)]
        lastStrategy == Find(strategies, lastSuccessfulStrategy)
    IN IF ContentMissing(options)
       THEN Resolve(begun, ContentRequired)
       ELSE IF lastSuccessfulStrategy # Undefined /\ lastStrategy # <<>>
            THEN [begun EXCEPT !.lastStrategy = lastStrategy,
                               !.pc = "fastAvail",
                               !.log = Invoked(begun, lastStrategy[1], "isAvailable", "fast")]
            ELSE LoopNext(begun)

\* await lastStrategy.isAvailable() settles (outside any try block)
FastAvailable(call, out) ==
    LET seen == [call EXCEPT !.outcomes = Append(call.outcomes, out)]
    IN CASE out = "throw" -> Reject(seen)
         [] out = "true" ->
              [seen EXCEPT !.pc = "fastGen",
                           !.log = Invoked(seen, call.lastStrategy[1], "generate", "fast")]
         [] OTHER -> LoopNext(seen)

\* await lastStrategy.generate(options) settles (outside any try block)
FastGenerated(call, out) ==
    IF out.threw
    THEN Reject([call EXCEPT !.outcomes = Append(call.outcomes, "throw")])
    ELSE IF out.value[1].success
         THEN Resolve([call EXCEPT !.outcomes = Append(call.outcomes, "success")],
                      out.value[1])
         ELSE LoopNext([call EXCEPT !.outcomes = Append(call.outcomes, "failure")])

\* await strategy.isAvailable() settles inside the loop's try block
ScanAvailable(call, out) ==
    LET seen == [call EXCEPT !.outcomes = Append(call.outcomes, out)]
    IN IF out = "true"
       THEN [seen EXCEPT !.pc = "scanGen",
                         !.log = Invoked(seen, call.strategy[1], "generate", "scan")]
       ELSE LoopNext(seen)

\* await strategy.generate(options) settles inside the loop's try block
ScanGenerated(call, out) ==
    IF out.threw
    THEN LoopNext([call EXCEPT !.outcomes = Append(call.outcomes, "throw")])
    ELSE IF out.value[1].success
         THEN Resolve([call EXCEPT !.outcomes = Append(call.outcomes, "success")],
                      out.value[1])
         ELSE LoopNext([call EXCEPT !.outcomes = Append(call.outcomes, "failure")])

\* Mutant of MemoAfterScan: a strategy that does not succeed clears the memo.
MemoAfterScanClearing(call, out) ==
    IF ~out.threw /\ out.value[1].success
    THEN call.strategy[1].name
    ELSE Undefined

\* this.lastSuccessfulStrategy once the scan's generate has settled
MemoAfterScan(call, out) ==
    IF ~out.threw /\ out.value[1].success
    THEN call.strategy[1].name
    ELSE lastSuccessfulStrategy

\* ----------------------------------------------------------------- actions
Store(c, full) ==
    /\ calls' = [calls EXCEPT ![c] = CallOf(full)]
    /\ trace' = IF Traced(c) THEN TraceOf(full) ELSE trace

Generate(c, options) ==
    /\ calls[c].pc = "idle"
    /\ Store(c, GenerateBegin(WithTrace(IdleCall, NoTrace), options))
    /\ UNCHANGED <<strategies, lastSuccessfulStrategy, registered, windowDefined, watching, now>>
    /\ UNCHANGED storeVars

FastIsAvailableSettles(c) ==
    /\ calls[c].pc = "fastAvail"
    /\ \E out \in StrategyIsAvailable(calls[c].lastStrategy[1]) :
         Store(c, FastAvailable(Full(c), out))
    /\ UNCHANGED <<strategies, lastSuccessfulStrategy, registered, windowDefined, watching, now>>
    /\ UNCHANGED storeVars

FastGenerateSettles(c) ==
    /\ calls[c].pc = "fastGen"
    /\ \E out \in StrategyGenerate(calls[c].lastStrategy[1], calls[c].options) :
         Store(c, FastGenerated(Full(c), out))
    /\ UNCHANGED <<strategies, lastSuccessfulStrategy, registered, windowDefined, watching, now>>
    /\ UNCHANGED storeVars

ScanIsAvailableSettles(c) ==
    /\ calls[c].pc = "scanAvail"
    /\ \E out \in StrategyIsAvailable(calls[c].strategy[1]) :
         Store(c, ScanAvailable(Full(c), out))
    /\ UNCHANGED <<strategies, lastSuccessfulStrategy, registered, windowDefined, watching, now>>
    /\ UNCHANGED storeVars

ScanGenerateSettles(c) ==
    /\ calls[c].pc = "scanGen"
    /\ \E out \in StrategyGenerate(calls[c].strategy[1], calls[c].options) :
         /\ Store(c, ScanGenerated(Full(c), out))
         /\ lastSuccessfulStrategy' = MemoAfterScan(calls[c], out)
    /\ UNCHANGED <<strategies, registered, windowDefined, watching, now>>
    /\ UNCHANGED storeVars

\* The caller takes the settled promise; the slot is free for a new call.
CallerReceives(c) ==
    /\ calls[c].pc = "done"
    /\ Store(c, WithTrace(IdleCall, NoTrace))
    /\ UNCHANGED <<strategies, lastSuccessfulStrategy, registered, windowDefined, watching, now>>
    /\ UNCHANGED storeVars

\* registerStrategy(strategy) with a third-party strategy, at any time
Register(limit, name, priority) ==
    /\ Len(registered) < 3 + limit
    /\ LET s == [sid |-> Len(registered) + 1, name |-> name,
                 priority |-> priority, kind |-> "custom"]
       IN /\ strategies' = RegisterStrategy(strategies, s)
          /\ registered' = Append(registered, s)
    /\ trace' = IF watching /\ calls[Watched].pc # "idle"
                THEN [trace EXCEPT !.listChanged = TRUE]
                ELSE trace
    /\ UNCHANGED <<calls, lastSuccessfulStrategy, windowDefined, watching, now>>
    /\ UNCHANGED storeVars

\* no storage call is in flight
NoOps == [provider |-> "none", queue |-> <<>>, start |-> <<>>, called |-> <<>>]

\* no validator has been called
NoValidation == [kind |-> "none", fn |-> "none", input |-> <<>>, result |-> <<>>]

\* a new QRiousStrategy, in a page that has not loaded the library
NewQRious(windowQRious) ==
    [qriousLoaded |-> FALSE, windowQRious |-> windowQRious, scripts |-> <<>>,
     calls |-> <<>>]

InitQRious == qrious = NewQRious(FALSE)

\* useQRGenerator() at its first render
NewHook ==
    [result |-> <<>>, isGenerating |-> FALSE, error |-> <<>>, generationIdRef |-> 0,
     pending |-> {}, started |-> 0, resets |-> 0, superseded |-> {}, completed |-> {}]

InitHook == hook = NewHook

\* a new IndexedDBProvider
NewOpener == [db |-> "null", initPromise |-> "null", opens |-> 0, operations |-> <<>>]

InitOpener == opener = NewOpener

\* no storage provider has been used yet
InitStores ==
    /\ localStorageItem = [exists |-> FALSE, data |-> <<>>]
    /\ idb = [db |-> "null", initPromise |-> "null", store |-> <<>>]
    /\ lastOp = [name |-> "none", ls |-> "none", idb |-> "none"]
    /\ inserted = <<>>
    /\ ops = NoOps
    /\ created = <<>>

\* nor any of the units that are modelled on their own
InitProviders ==
    /\ validation = NoValidation
    /\ InitQRious
    /\ InitHook
    /\ InitOpener
    /\ InitStores

\* the same, where there is an indexedDB
InitStorage == InitProviders /\ indexedDBInWindow = TRUE

\* new QRGeneratorFactory()
InitFactory ==
    /\ strategies = RegisterStrategy(RegisterStrategy(RegisterStrategy(<<>>, QRious),
                                                      GoogleCharts), QRServer)
    /\ registered = <<QRious, GoogleCharts, QRServer>>
    /\ lastSuccessfulStrategy = Undefined
    /\ calls = [c \in CallSlots |-> IdleCall]
    /\ trace = NoTrace
    /\ windowDefined \in BOOLEAN
    /\ now = 0

\* One generate() call at a time, with its history recorded.
InitGen == InitFactory /\ InitStorage /\ watching = TRUE

NextGen ==
    \/ \E options \in RequestOptions : Generate(Watched, options)
    \/ FastIsAvailableSettles(Watched)
    \/ FastGenerateSettles(Watched)
    \/ ScanIsAvailableSettles(Watched)
    \/ ScanGenerateSettles(Watched)
    \/ CallerReceives(Watched)
    \/ \E name \in CustomNames, priority \in 0..MaxPriority :
          Register(MaxRegistrations, name, priority)

SpecGen == InitGen /\ [][NextGen]_vars

\* One generate() call at a time for one request, with up to MaxRacing
\* registerStrategy calls made at any moment, while a call awaits included.
RaceOptions == {[present |-> TRUE, content |-> <<"a">>]}

NextRace ==
    \/ \E options \in RaceOptions : Generate(Watched, options)
    \/ FastIsAvailableSettles(Watched)
    \/ FastGenerateSettles(Watched)
    \/ ScanIsAvailableSettles(Watched)
    \/ ScanGenerateSettles(Watched)
    \/ CallerReceives(Watched)
    \/ \E name \in CustomNames, priority \in 0..MaxPriority :
          Register(MaxRacing, name, priority)

SpecRace == InitGen /\ [][NextRace]_vars

\* Overlapping generate() calls on one engine, over the built-in strategies.
\* The calls meet only in lastSuccessfulStrategy, whatever the content is:
\* the requests carry the contents of at most one character.
ShortOptions == {o \in RequestOptions : o.content \in {<<>>, <<" ">>, <<"a">>, <<"S">>}}

InitConc == InitFactory /\ InitStorage /\ watching = FALSE

NextConc ==
    \/ \E c \in CallSlots, options \in ShortOptions : Generate(c, options)
    \/ \E c \in CallSlots : FastIsAvailableSettles(c)
    \/ \E c \in CallSlots : FastGenerateSettles(c)
    \/ \E c \in CallSlots : ScanIsAvailableSettles(c)
    \/ \E c \in CallSlots : ScanGenerateSettles(c)
    \/ \E c \in CallSlots : CallerReceives(c)

SpecConc == InitConc /\ [][NextConc]_vars

\* Sequences of registerStrategy calls on a new factory.
InitReg == InitFactory /\ InitStorage /\ watching = FALSE

\* registrations under two names, so that entries of equal priority differ
RegisteredNames == CustomNames \cup {"other"}

NextReg ==
    \E name \in RegisteredNames, priority \in 0..MaxPriority :
        Register(MaxRegisterOnly, name, priority)

SpecReg == InitReg /\ [][NextReg]_vars

\* ----------------------------------------------------------------- storage
\* The id strings, numbered in the order in which IndexedDB compares keys.
Ids == 1..MaxIds
Times == 0..MaxNow
Names == {Undefined, "n"}
\* metadata.favorite: unset or true
Favorites == {Undefined, "true"}

\* QRCodeRecord, as property reads see it: id, the two timestamps and the
\* optional metadata.name and metadata.favorite (Undefined when the property
\* is absent). The other fields are plain data that travel with these; no
\* request of this model filters on them.
Records ==
    [id : Ids, createdAt : Times, updatedAt : Times,
     metadata : [name : Names, favorite : Favorites]]

\* The records the callers of this model save: createdAt, which no operation
\* modelled here reads, is left at 0.
SavedRecords == {r \in Records : r.createdAt = 0 /\ r.metadata.favorite = Undefined}

\* Partial<QRCodeRecord>: some of the properties
Partials ==
    {[k \in {} |-> 0]}
    \cup {[k \in {"id"} |-> i] : i \in Ids}
    \cup {[k \in {"updatedAt"} |-> t] : t \in Times}
    \cup {[k \in {"metadata"} |-> [name |-> n, favorite |-> Undefined]] : n \in Names}

\* Mutant of Updated: the id and the updatedAt of the updates are kept.
UpdatedTrustingUpdates(existing, updates, time) ==
    [k \in DOMAIN existing |-> IF k \in DOMAIN updates THEN updates[k] ELSE existing[k]]

\* { ...existing, ...updates, id: existing.id, updatedAt: Date.now() }
Updated(existing, updates, time) ==
    LET spread == [k \in DOMAIN existing \cup DOMAIN updates |->
                      IF k \in DOMAIN updates THEN updates[k] ELSE existing[k]]
    IN [id |-> existing.id, createdAt |-> spread.createdAt, updatedAt |-> time,
        metadata |-> spread.metadata]

\* JSON.stringify of a record: its members in property order; a property
\* whose value is undefined is left out.
StringifyMetadata(m) ==
    (IF m.name = Undefined THEN <<>> ELSE <<<<"name", m.name>>>>)
    \o (IF m.favorite = Undefined THEN <<>> ELSE <<<<"favorite", m.favorite>>>>)

StringifyRecord(r) ==
    <<r.id, r.createdAt, r.updatedAt, StringifyMetadata(r.metadata)>>

JSONStringify(records) ==
    [i \in 1..Len(records) |-> StringifyRecord(records[i])]

\* JSON.parse: a property that is not in the text reads as undefined.
Member(members, key) ==
    IF \E i \in 1..Len(members) : members[i][1] = key
    THEN members[CHOOSE i \in 1..Len(members) : members[i][1] = key][2]
    ELSE Undefined

ParseMetadata(members) ==
    [name |-> Member(members, "name"), favorite |-> Member(members, "favorite")]

ParseRecord(object) ==
    [id |-> object[1], createdAt |-> object[2], updatedAt |-> object[3],
     metadata |-> ParseMetadata(object[4])]

JSONParse(text) ==
    [i \in 1..Len(text) |-> ParseRecord(text[i])]

\* all.findIndex(r => r.id === id), 0 standing for -1
FindIndex(all, id) ==
    LET hits == {i \in 1..Len(all) : all[i].id = id}
    IN IF hits = {} THEN 0 ELSE CHOOSE i \in hits : \A j \in hits : i <= j

\* all.filter(r => r.id !== id)
RECURSIVE WithoutId(_, _)
WithoutId(all, id) ==
    IF all = <<>> THEN <<>>
    ELSE IF Head(all).id = id
         THEN WithoutId(Tail(all), id)
         ELSE <<Head(all)>> \o WithoutId(Tail(all), id)

\* ---- LocalStorageProvider
\* getAll: the parsed item, [] when there is none
LSGetAll(item) ==
    IF item.exists THEN JSONParse(item.data) ELSE <<>>

\* saveAll
LSSaveAll(records) ==
    [exists |-> TRUE, data |-> JSONStringify(records)]

\* Mutant of LSSave: the record is pushed whether or not its id is stored.
LSSaveAlwaysPush(item, record) ==
    LSSaveAll(Append(LSGetAll(item), record))

\* save
LSSave(item, record) ==
    LET all == LSGetAll(item)
        index == FindIndex(all, record.id)
    IN IF index > 0
       THEN LSSaveAll([all EXCEPT ![index] = record])
       ELSE LSSaveAll(Append(all, record))

\* get: the record in a sequence of length one, <<>> for null
LSGet(item, id) ==
    LET all == LSGetAll(item)
        index == FindIndex(all, id)
    IN IF index > 0 THEN <<all[index]>> ELSE <<>>

\* Mutant of LSUpdate: a missing record is created from the updates.
LSUpdateOrCreate(item, id, updates, time) ==
    LET existing == LSGet(item, id)
        blank == [id |-> id, createdAt |-> time, updatedAt |-> time,
                  metadata |-> [name |-> Undefined, favorite |-> Undefined]]
    IN [outcome |-> "resolved",
        item |-> LSSave(item, Updated(IF existing = <<>> THEN blank ELSE existing[1],
                                      updates, time))]

\* update
LSUpdate(item, id, updates, time) ==
    LET existing == LSGet(item, id)
    IN IF existing = <<>>
       THEN [outcome |-> "notFound", item |-> item]
       ELSE [outcome |-> "resolved",
             item |-> LSSave(item, Updated(existing[1], updates, time))]

\* delete
LSDelete(item, id) == LSSaveAll(WithoutId(LSGetAll(item), id))

\* clear: localStorage.removeItem(LS_KEY)
LSClear(item) == [exists |-> FALSE, data |-> <<>>]

\* ---- IndexedDBProvider
\* init: opens the database once; `open` is how indexedDB.open ends when it
\* is called. A rejected initPromise stays in place.
IDBInit(p, open) ==
    IF p.db = "open" THEN [ok |-> TRUE, idb |-> p]
    ELSE IF p.initPromise # "null"
         THEN [ok |-> p.initPromise = "fulfilled", idb |-> p]
         ELSE IF open = "success"
              THEN [ok |-> TRUE,
                    idb |-> [p EXCEPT !.db = "open", !.initPromise = "fulfilled"]]
              ELSE [ok |-> FALSE, idb |-> [p EXCEPT !.initPromise = "rejected"]]

\* store.put(record) on an object store with keyPath 'id': the records are
\* kept in key order, one per key
StorePut(store, record) ==
    LET below == Cardinality({i \in 1..Len(store) : store[i].id < record.id})
        upTo == Cardinality({i \in 1..Len(store) : store[i].id <= record.id})
    IN SubSeq(store, 1, below) \o <<record>> \o SubSeq(store, upTo + 1, Len(store))

\* store.get(id): request.result || null
StoreGet(store, id) ==
    LET index == FindIndex(store, id)
    IN IF index > 0 THEN <<store[index]>> ELSE <<>>

\* save
IDBSave(p, record, open) ==
    LET init == IDBInit(p, open)
    IN IF init.ok
       THEN [outcome |-> "resolved",
             idb |-> [init.idb EXCEPT !.store = StorePut(init.idb.store, record)]]
       ELSE [outcome |-> "openFailed", idb |-> init.idb]

\* get
IDBGet(p, id, open) ==
    LET init == IDBInit(p, open)
    IN IF init.ok
       THEN [outcome |-> "resolved", value |-> StoreGet(init.idb.store, id), idb |-> init.idb]
       ELSE [outcome |-> "openFailed", value |-> <<>>, idb |-> init.idb]

\* update
IDBUpdate(p, id, updates, open, time) ==
    LET existing == IDBGet(p, id, open)
    IN IF existing.outcome # "resolved"
       THEN [outcome |-> existing.outcome, idb |-> existing.idb]
       ELSE IF existing.value = <<>>
            THEN [outcome |-> "notFound", idb |-> existing.idb]
            ELSE IDBSave(existing.idb, Updated(existing.value[1], updates, time), open)

\* delete
IDBDelete(p, id, open) ==
    LET init == IDBInit(p, open)
    IN IF init.ok
       THEN [outcome |-> "resolved",
             idb |-> [init.idb EXCEPT !.store = WithoutId(init.idb.store, id)]]
       ELSE [outcome |-> "openFailed", idb |-> init.idb]

\* clear
IDBClear(p, open) ==
    LET init == IDBInit(p, open)
    IN IF init.ok
       THEN [outcome |-> "resolved", idb |-> [init.idb EXCEPT !.store = <<>>]]
       ELSE [outcome |-> "openFailed", idb |-> init.idb]

\* how indexedDB.open ends, if this call is the one that makes it
OpenOutcomes ==
    IF idb.db = "null" /\ idb.initPromise = "null"
    THEN {"success", "error"}
    ELSE {"not called"}

\* ---- history: the ids in order of first insertion
InsertedWith(order, id) ==
    IF \E i \in 1..Len(order) : order[i] = id THEN order ELSE Append(order, id)

InsertedWithout(order, id) ==
    LET Other(i) == i # id IN SelectSeq(order, Other)

RECURSIVE InsertedWithAll(_, _)
InsertedWithAll(order, records) ==
    IF records = <<>> THEN order
    ELSE InsertedWithAll(InsertedWith(order, Head(records).id), Tail(records))

\* ---- the same call made on both providers
Save(record, open) ==
    LET r == IDBSave(idb, record, open)
    IN /\ localStorageItem' = LSSave(localStorageItem, record)
       /\ idb' = r.idb
       /\ lastOp' = [name |-> "save", ls |-> "resolved", idb |-> r.outcome]
       /\ inserted' = InsertedWith(inserted, record.id)
       /\ UNCHANGED otherVars
       /\ UNCHANGED factoryVars

Get(id, open) ==
    LET r == IDBGet(idb, id, open)
    IN /\ idb' = r.idb
       /\ lastOp' = [name |-> "get", ls |-> "resolved", idb |-> r.outcome]
       /\ UNCHANGED <<localStorageItem, inserted>>
       /\ UNCHANGED otherVars
       /\ UNCHANGED factoryVars

Update(id, updates, open) ==
    LET l == LSUpdate(localStorageItem, id, updates, now)
        r == IDBUpdate(idb, id, updates, open, now)
    IN /\ localStorageItem' = l.item
       /\ idb' = r.idb
       /\ lastOp' = [name |-> "update", ls |-> l.outcome, idb |-> r.outcome]
       /\ UNCHANGED inserted
       /\ UNCHANGED otherVars
       /\ UNCHANGED factoryVars

Delete(id, open) ==
    LET r == IDBDelete(idb, id, open)
    IN /\ localStorageItem' = LSDelete(localStorageItem, id)
       /\ idb' = r.idb
       /\ lastOp' = [name |-> "delete", ls |-> "resolved", idb |-> r.outcome]
       /\ inserted' = InsertedWithout(inserted, id)
       /\ UNCHANGED otherVars
       /\ UNCHANGED factoryVars

Clear(open) ==
    LET r == IDBClear(idb, open)
    IN /\ localStorageItem' = LSClear(localStorageItem)
       /\ idb' = r.idb
       /\ lastOp' = [name |-> "clear", ls |-> "resolved", idb |-> r.outcome]
       /\ inserted' = <<>>
       /\ UNCHANGED otherVars
       /\ UNCHANGED factoryVars

\* time passes
Tick ==
    /\ now < MaxNow
    /\ now' = now + 1
    /\ UNCHANGED storeVars
    /\ UNCHANGED factoryVars

InitStore == InitFactory /\ InitStorage /\ watching = FALSE /\ windowDefined

NextStore ==
    \/ \E record \in SavedRecords, open \in OpenOutcomes : Save(record, open)
    \/ \E id \in Ids, open \in OpenOutcomes : Get(id, open)
    \/ \E id \in Ids, updates \in Partials, open \in OpenOutcomes : Update(id, updates, open)
    \/ \E id \in Ids, open \in OpenOutcomes : Delete(id, open)
    \/ \E open \in OpenOutcomes : Clear(open)
    \/ Tick

SpecStore == InitStore /\ [][NextStore]_vars

\* ---- list, export, getStats
\* An optional number is <<>> when it is undefined and <<n>> otherwise.
Optional(S) == {<<>>} \cup {<<n>> : n \in S}

\* QRListOptions. No request of this model carries contentType or tags.
AllListOptions ==
    [limit : Optional(0..MaxPage), offset : Optional(0..MaxPage),
     sortBy : {Undefined, "createdAt", "updatedAt", "name"},
     sortOrder : {Undefined, "asc", "desc"},
     favorite : {Undefined, "true", "false"}]

\* list() and list({})
NoOptions ==
    [limit |-> <<>>, offset |-> <<>>, sortBy |-> Undefined, sortOrder |-> Undefined,
     favorite |-> Undefined]

\* if (options.favorite !== undefined) results = results.filter(...)
FilterFavorite(results, options) ==
    IF options.favorite # Undefined
    THEN LET Matches(r) == r.metadata.favorite = options.favorite
         IN SelectSeq(results, Matches)
    ELSE results

\* the place of a name in the order of < on strings: '' before "n"
NameRank(name) == IF name = "" THEN 0 ELSE 1

\* sortBy === 'name' ? a.metadata.name || '' : a[sortBy], as a number that
\* < and > order as they order the value
SortValue(r, sortBy) ==
    IF sortBy = "name"
    THEN NameRank(IF r.metadata.name = Undefined THEN "" ELSE r.metadata.name)
    ELSE r[sortBy]

\* the comparator given to results.sort
CompareRecords(a, b, options) ==
    LET sortBy == IF options.sortBy = Undefined THEN "createdAt" ELSE options.sortBy
        sortOrder == IF options.sortOrder = Undefined THEN "desc" ELSE options.sortOrder
        aVal == SortValue(a, sortBy)
        bVal == SortValue(b, sortBy)
    IN IF aVal < bVal THEN (IF sortOrder = "asc" THEN -1 ELSE 1)
       ELSE IF aVal > bVal THEN (IF sortOrder = "asc" THEN 1 ELSE -1)
       ELSE 0

\* Array.prototype.sort is stable: x goes behind what does not compare
\* greater than it
InsertRecord(sorted, x, options) ==
    LET before == {i \in 1..Len(sorted) : CompareRecords(sorted[i], x, options) <= 0}
        n == Cardinality(before)
    IN SubSeq(sorted, 1, n) \o <<x>> \o SubSeq(sorted, n + 1, Len(sorted))

RECURSIVE SortRecords(_, _)
SortRecords(results, options) ==
    IF results = <<>> THEN <<>>
    ELSE InsertRecord(SortRecords(SubSeq(results, 1, Len(results) - 1), options),
                      results[Len(results)], options)

\* results.slice(from, to) and results.slice(from)
Slice(results, from, to) ==
    SubSeq(results, from + 1, IF to < Len(results) THEN to ELSE Len(results))

\* const offset = options.offset || 0; if (limit) ... else if (offset) ...
Paginate(results, options) ==
    LET offset == IF options.offset = <<>> THEN 0 ELSE options.offset[1]
        limitTruthy == options.limit # <<>> /\ options.limit[1] # 0
    IN IF limitTruthy
       THEN Slice(results, offset, offset + options.limit[1])
       ELSE IF offset # 0
            THEN Slice(results, offset, Len(results))
            ELSE results

\* the body the two list methods share: filter, sort, paginate
ListFrom(all, options) ==
    Paginate(SortRecords(FilterFavorite(all, options), options), options)

\* LocalStorageProvider.list
LSList(item, options) == ListFrom(LSGetAll(item), options)

\* IndexedDBProvider.list: store.getAll() gives the records in key order
IDBList(p, options, open) ==
    LET init == IDBInit(p, open)
    IN IF init.ok
       THEN [outcome |-> "resolved", value |-> ListFrom(init.idb.store, options),
             idb |-> init.idb]
       ELSE [outcome |-> "openFailed", value |-> <<>>, idb |-> init.idb]

\* LocalStorageProvider.export
LSExport(item) == LSGetAll(item)

\* IndexedDBProvider.export
IDBExport(p, open) == IDBList(p, NoOptions, open)

\* all.map(r => r.createdAt).sort((a, b) => a - b)
RECURSIVE SortNumbers(_)
SortNumbers(numbers) ==
    IF numbers = <<>> THEN <<>>
    ELSE LET x == numbers[Len(numbers)]
             sorted == SortNumbers(SubSeq(numbers, 1, Len(numbers) - 1))
             n == Cardinality({i \in 1..Len(sorted) : sorted[i] - x <= 0})
         IN SubSeq(sorted, 1, n) \o <<x>> \o SubSeq(sorted, n + 1, Len(sorted))

\* JSON.stringify(all).length, counted in the values the text holds
RECURSIVE TextLength(_)
TextLength(text) ==
    IF text = <<>> THEN 0
    ELSE 3 + Len(Head(text)[4]) + TextLength(Tail(text))

\* timestamps[i], undefined (<<>>) outside the array
At(timestamps, i) ==
    IF i \in 1..Len(timestamps) THEN <<timestamps[i]>> ELSE <<>>

\* Mutant of StatsOf: the newest record is read at the front of the array.
StatsOfFront(all) ==
    LET timestamps == SortNumbers([i \in 1..Len(all) |-> all[i].createdAt])
    IN [count |-> Len(all), size |-> TextLength(JSONStringify(all)),
        oldestRecord |-> At(timestamps, 1),
        newestRecord |-> At(timestamps, 1)]

\* the body the two getStats methods share
StatsOf(all) ==
    LET timestamps == SortNumbers([i \in 1..Len(all) |-> all[i].createdAt])
    IN [count |-> Len(all), size |-> TextLength(JSONStringify(all)),
        oldestRecord |-> At(timestamps, 1),
        newestRecord |-> At(timestamps, Len(timestamps))]

\* LocalStorageProvider.getStats
LSGetStats(item) == StatsOf(LSGetAll(item))

\* IndexedDBProvider.getStats
IDBGetStats(p, open) ==
    LET all == IDBList(p, NoOptions, open)
    IN IF all.outcome = "resolved"
       THEN [outcome |-> "resolved", value |-> <<StatsOf(all.value)>>, idb |-> all.idb]
       ELSE [outcome |-> all.outcome, value |-> <<>>, idb |-> all.idb]

\* ---- the same read made on both providers
List(options, open) ==
    LET r == IDBList(idb, options, open)
    IN /\ idb' = r.idb
       /\ lastOp' = [name |-> "list", ls |-> "resolved", idb |-> r.outcome,
                     options |-> options,
                     lsResult |-> LSList(localStorageItem, options),
                     idbResult |-> r.value]
       /\ UNCHANGED <<localStorageItem, inserted>>
       /\ UNCHANGED otherVars
       /\ UNCHANGED factoryVars

Export(open) ==
    LET r == IDBExport(idb, open)
    IN /\ idb' = r.idb
       /\ lastOp' = [name |-> "export", ls |-> "resolved", idb |-> r.outcome,
                     lsResult |-> LSExport(localStorageItem),
                     idbResult |-> r.value]
       /\ UNCHANGED <<localStorageItem, inserted>>
       /\ UNCHANGED otherVars
       /\ UNCHANGED factoryVars

GetStats(open) ==
    LET r == IDBGetStats(idb, open)
    IN /\ idb' = r.idb
       /\ lastOp' = [name |-> "getStats", ls |-> "resolved", idb |-> r.outcome,
                     lsResult |-> <<LSGetStats(localStorageItem)>>,
                     idbResult |-> r.value]
       /\ UNCHANGED <<localStorageItem, inserted>>
       /\ UNCHANGED otherVars
       /\ UNCHANGED factoryVars

\* The records the callers of SpecList save: updatedAt is left at 0.
ListedRecords == {r \in Records : r.updatedAt = 0}

\* The requests of SpecList: a sort of the whole store, or a page of the
\* store in the default order, filtered or not.
SortOptions ==
    {o \in AllListOptions : o.limit = <<>> /\ o.offset = <<>> /\ o.favorite = Undefined}
PageOptions ==
    {o \in AllListOptions : o.sortBy = Undefined /\ o.sortOrder = Undefined}
ListOptions == SortOptions \cup PageOptions

\* save, delete, clear, list, export and getStats calls, one after the
\* other, on both providers
NextList ==
    \/ \E record \in ListedRecords, open \in OpenOutcomes : Save(record, open)
    \/ \E id \in Ids, open \in OpenOutcomes : Delete(id, open)
    \/ \E open \in OpenOutcomes : Clear(open)
    \/ \E options \in ListOptions, open \in OpenOutcomes : List(options, open)
    \/ \E open \in OpenOutcomes : Export(open)
    \/ \E open \in OpenOutcomes : GetStats(open)

SpecList == InitStore /\ [][NextList]_vars

\* The records the callers of SpecStats save.
StatRecords == {r \in ListedRecords : r.metadata.favorite = Undefined}

\* save, delete, clear and getStats calls, one after the other, on both
\* providers
NextStats ==
    \/ \E record \in StatRecords, open \in OpenOutcomes : Save(record, open)
    \/ \E id \in Ids, open \in OpenOutcomes : Delete(id, open)
    \/ \E open \in OpenOutcomes : Clear(open)
    \/ \E open \in OpenOutcomes : GetStats(open)

SpecStats == InitStore /\ [][NextStats]_vars

\* ---- import
\* Mutant of LSImport: every input record is pushed.
RECURSIVE LSMergePushing(_, _)
LSMergePushing(merged, records) ==
    IF records = <<>> THEN merged
    ELSE LSMergePushing(Append(merged, Head(records)), Tail(records))

\* LocalStorageProvider.import: the loop over the input on the copy `merged`
RECURSIVE LSMerge(_, _)
LSMerge(merged, records) ==
    IF records = <<>> THEN merged
    ELSE LET record == Head(records)
             index == FindIndex(merged, record.id)
         IN LSMerge(IF index > 0
                    THEN [merged EXCEPT ![index] = record]
                    ELSE Append(merged, record),
                 Tail(records))

LSImport(item, records) == LSSaveAll(LSMerge(LSGetAll(item), records))

\* IndexedDBProvider.import: save after save, stopping at the first that rejects
RECURSIVE IDBImport(_, _, _)
IDBImport(p, records, open) ==
    IF records = <<>> THEN [outcome |-> "resolved", idb |-> p]
    ELSE LET saved == IDBSave(p, Head(records), open)
         IN IF saved.outcome = "resolved"
            THEN IDBImport(saved.idb, Tail(records), open)
            ELSE saved

\* the records the callers of SpecImport import: they differ in id and name
ImportedRecords == {r \in SavedRecords : r.updatedAt = 0}
ImportLists == SeqsUpTo(ImportedRecords, MaxImport)

Import(records, open) ==
    LET r == IDBImport(idb, records, open)
    IN /\ localStorageItem' = LSImport(localStorageItem, records)
       /\ idb' = r.idb
       /\ lastOp' = [name |-> "import", ls |-> "resolved", idb |-> r.outcome,
                     count |-> Len(records)]
       /\ inserted' = InsertedWithAll(inserted, records)
       /\ UNCHANGED otherVars
       /\ UNCHANGED factoryVars

\* import, save, delete and clear calls, one after the other, on both
\* providers
NextImport ==
    \/ \E records \in ImportLists, open \in OpenOutcomes : Import(records, open)
    \/ \E record \in ImportedRecords, open \in OpenOutcomes : Save(record, open)
    \/ \E id \in Ids, open \in OpenOutcomes : Delete(id, open)
    \/ \E open \in OpenOutcomes : Clear(open)

SpecImport == InitStore /\ [][NextImport]_vars

\* ---- overlapping calls on one provider
\* A storage call that changes the store, as its arguments.
NoUpdates == [k \in {} |-> 0]

SaveCall(record) ==
    [name |-> "save", id |-> record.id, records |-> <<record>>, updates |-> NoUpdates]
UpdateCall(id, updates) ==
    [name |-> "update", id |-> id, records |-> <<>>, updates |-> updates]
DeleteCall(id) ==
    [name |-> "delete", id |-> id, records |-> <<>>, updates |-> NoUpdates]
ClearCall ==
    [name |-> "clear", id |-> 0, records |-> <<>>, updates |-> NoUpdates]
ImportCall(records) ==
    [name |-> "import", id |-> 0, records |-> records, updates |-> NoUpdates]

\* What is left of a call after an await: the call, the statement it resumes
\* at, and its local variables (read: what getAll returned to it, records:
\* the record or records it still has to write).
Continuation(call, pc, read, records) ==
    [call |-> call, pc |-> pc, read |-> read, records |-> records]

\* The continuations wait in the order in which they were scheduled: promise
\* jobs are run first in, first out, and so are the transactions on the one
\* object store.
Scheduled(continuations) == [ops EXCEPT !.queue = Tail(ops.queue) \o continuations]

\* A call joins the calls in flight; when none is in flight it opens a new
\* group of overlapping calls, on the store as it is then.
Joined(provider, store, call) ==
    IF ops.queue = <<>>
    THEN [provider |-> provider, queue |-> <<>>, start |-> <<store>>, called |-> <<call>>]
    ELSE [ops EXCEPT !.called = Append(ops.called, call)]

MayCall(provider) ==
    \/ ops.queue = <<>>
    \/ ops.provider = provider /\ Len(ops.called) < MaxStorageCalls

\* LocalStorageProvider: the part of a call that runs before its first await.
\* getAll reads the item there; clear has no await at all.
LSCall(call) ==
    LET joined == Joined("localStorage", localStorageItem, call)
        first == IF call.name = "clear" THEN <<>>
                 ELSE IF call.name = "update"
                      THEN <<Continuation(call, "get", localStorageItem, <<>>)>>
                      ELSE <<Continuation(call, call.name, localStorageItem, call.records)>>
    IN /\ MayCall("localStorage")
       /\ localStorageItem' = IF call.name = "clear" THEN LSClear(localStorageItem)
                              ELSE localStorageItem
       /\ ops' = [joined EXCEPT !.queue = ops.queue \o first]
       /\ UNCHANGED <<idb, lastOp, inserted, now, indexedDBInWindow, created, unitVars>>
       /\ UNCHANGED factoryVars

\* LocalStorageProvider: the continuation at the head of the queue runs up to
\* its next await.
\*   save, delete, import: change the array that was read and saveAll it;
\*   get (within update): all.find, which resumes update;
\*   update: throws when nothing was found, and otherwise calls save, whose
\*           getAll reads the item again.
LSStep ==
    LET c == Head(ops.queue)
        existing == LSGet(c.read, c.call.id)
    IN /\ ops.provider = "localStorage"
       /\ ops.queue # <<>>
       /\ localStorageItem' =
             CASE c.pc = "save" -> LSSave(c.read, c.records[1])
               [] c.pc = "delete" -> LSDelete(c.read, c.call.id)
               [] c.pc = "import" -> LSImport(c.read, c.records)
               [] OTHER -> localStorageItem
       /\ ops' =
             CASE c.pc = "get" -> Scheduled(<<Continuation(c.call, "update", c.read, existing)>>)
               [] c.pc = "update" /\ c.records # <<>> ->
                     Scheduled(<<Continuation(c.call, "save", localStorageItem,
                                              <<Updated(c.records[1], c.call.updates, now)>>)>>)
               [] OTHER -> Scheduled(<<>>)
       /\ UNCHANGED <<idb, lastOp, inserted, now, indexedDBInWindow, created, unitVars>>
       /\ UNCHANGED factoryVars

\* IndexedDBProvider: a call awaits init() and then opens its transaction;
\* the database is one that opens.
IDBCall(call) ==
    LET joined == Joined("indexedDB", idb, call)
        pc == CASE call.name = "update" -> "get"
                [] call.name = "import" /\ call.records = <<>> -> "done"
                [] OTHER -> call.name
    IN /\ MayCall("indexedDB")
       /\ ops' = [joined EXCEPT !.queue = ops.queue \o
                                   <<Continuation(call, pc, <<>>, call.records)>>]
       /\ UNCHANGED <<localStorageItem, idb, lastOp, inserted, now, indexedDBInWindow, created, unitVars>>
       /\ UNCHANGED factoryVars

\* IndexedDBProvider: the transaction at the head of the queue runs, and the
\* call goes on to its next one:
\*   update: after the get, the put of the merged record (none when nothing
\*           was found);
\*   import: after the put of one record, the put of the next.
IDBStep ==
    LET c == Head(ops.queue)
        existing == IDBGet(idb, c.call.id, "success")
    IN /\ ops.provider = "indexedDB"
       /\ ops.queue # <<>>
       /\ idb' =
             CASE c.pc \in {"save", "import"} -> IDBSave(idb, c.records[1], "success").idb
               [] c.pc = "delete" -> IDBDelete(idb, c.call.id, "success").idb
               [] c.pc = "clear" -> IDBClear(idb, "success").idb
               [] c.pc = "get" -> existing.idb
               [] OTHER -> idb
       /\ ops' =
             CASE c.pc = "get" /\ existing.value # <<>> ->
                     Scheduled(<<Continuation(c.call, "save", <<>>,
                                              <<Updated(existing.value[1], c.call.updates, now)>>)>>)
               [] c.pc = "import" /\ Len(c.records) > 1 ->
                     Scheduled(<<Continuation(c.call, "import", <<>>, Tail(c.records))>>)
               [] OTHER -> Scheduled(<<>>)
       /\ UNCHANGED <<localStorageItem, lastOp, inserted, now, indexedDBInWindow, created, unitVars>>
       /\ UNCHANGED factoryVars

\* The calls that overlap: saves of records without a name, updates that set
\* the name, deletes, clear, and imports of records with a name.
OverlapSaved == {r \in ImportedRecords : r.metadata.name = Undefined}
OverlapImported == {r \in ImportedRecords : r.metadata.name # Undefined}
OverlapUpdates == {u \in Partials : "metadata" \in DOMAIN u /\ u.metadata.name # Undefined}

OverlapCalls ==
    {SaveCall(r) : r \in OverlapSaved}
    \cup {UpdateCall(id, u) : id \in Ids, u \in OverlapUpdates}
    \cup {DeleteCall(id) : id \in Ids}
    \cup {ClearCall}
    \cup {ImportCall(records) : records \in SeqsUpTo(OverlapImported, MaxImport)}

NextOverlap ==
    \/ \E call \in OverlapCalls : LSCall(call)
    \/ LSStep
    \/ \E call \in OverlapCalls : IDBCall(call)
    \/ IDBStep

SpecOverlap == InitStore /\ [][NextOverlap]_vars

\* ---- createStorageProvider
\* new IndexedDBProvider() on the database as it is
NewIndexedDBProvider == [idb EXCEPT !.db = "null", !.initPromise = "null"]

\* Mutant of CreateStorageProviderResult: the probe is awaited outside the
\* try block.
CreateStorageProviderProbeUncaught(window, inWindow, provider, open) ==
    LET probe == IDBGetStats(provider, open)
    IN IF window /\ inWindow
       THEN IF probe.outcome = "resolved"
            THEN [settled |-> "fulfilled", kind |-> "IndexedDBProvider", probed |-> TRUE,
                  probe |-> probe.outcome, provider |-> <<probe.idb>>]
            ELSE [settled |-> "rejected", kind |-> "none", probed |-> TRUE,
                  probe |-> probe.outcome, provider |-> <<>>]
       ELSE [settled |-> "fulfilled", kind |-> "LocalStorageProvider", probed |-> FALSE,
             probe |-> "none", provider |-> <<>>]

\* createStorageProvider(): how the promise settles, the class of the
\* provider, whether getStats() was called on a new IndexedDBProvider and
\* how that call ended, and the IndexedDBProvider returned
CreateStorageProviderResult(window, inWindow, provider, open) ==
    LET probe == IDBGetStats(provider, open)
    IN IF window /\ inWindow
       THEN IF probe.outcome = "resolved"
            THEN [settled |-> "fulfilled", kind |-> "IndexedDBProvider", probed |-> TRUE,
                  probe |-> probe.outcome, provider |-> <<probe.idb>>]
            ELSE [settled |-> "fulfilled", kind |-> "LocalStorageProvider", probed |-> TRUE,
                  probe |-> probe.outcome, provider |-> <<>>]
       ELSE [settled |-> "fulfilled", kind |-> "LocalStorageProvider", probed |-> FALSE,
             probe |-> "none", provider |-> <<>>]

\* One call of createStorageProvider(), `open` being how indexedDB.open ends
\* for the probe. The caller goes on with the provider it was given.
CreateStorageProvider(open) ==
    LET r == CreateStorageProviderResult(windowDefined, indexedDBInWindow,
                                         NewIndexedDBProvider, open)
    IN /\ Len(created) < MaxCreated
       /\ created' = Append(created, [settled |-> r.settled, kind |-> r.kind,
                                      probed |-> r.probed, probe |-> r.probe])
       /\ idb' = IF r.provider = <<>> THEN idb ELSE r.provider[1]
       /\ UNCHANGED <<localStorageItem, lastOp, inserted, ops, now, indexedDBInWindow, unitVars>>
       /\ UNCHANGED factoryVars

\* A process, with or without a window, with or without window.indexedDB.
InitCreate ==
    /\ InitFactory
    /\ InitProviders
    /\ watching = FALSE
    /\ indexedDBInWindow \in (IF windowDefined THEN BOOLEAN ELSE {FALSE})

\* createStorageProvider() calls, and saves between them
NextCreate ==
    \/ \E open \in {"success", "error"} : CreateStorageProvider(open)
    \/ \E record \in OverlapSaved, open \in OpenOutcomes : Save(record, open)

SpecCreate == InitCreate /\ [][NextCreate]_vars

\* ---------------------------------------------------------------- validation
\* Strings are sequences of characters, as above. The upper-case letters of
\* the inputs are "H", "T", "P", "G" and "M".
ToLowerCaseChar(ch) ==
    CASE ch = "H" -> "h"
      [] ch = "T" -> "t"
      [] ch = "P" -> "p"
      [] ch = "G" -> "g"
      [] ch = "M" -> "m"
      [] OTHER -> ch

\* String.prototype.toLowerCase
ToLowerCase(s) == [i \in 1..Len(s) |-> ToLowerCaseChar(s[i])]

\* a string of n characters ch
Repeat(ch, n) == [i \in 1..n |-> ch]

StartsWith(s, prefix) ==
    Len(s) >= Len(prefix) /\ SubSeq(s, 1, Len(prefix)) = prefix

\* s.indexOf(ch), from 1; 0 when ch is not in s
IndexOf(s, ch) ==
    LET hits == {i \in 1..Len(s) : s[i] = ch}
    IN IF hits = {} THEN 0 ELSE CHOOSE i \in hits : \A j \in hits : i <= j

\* s.includes(t)
Includes(s, t) ==
    \E i \in 0..(Len(s) - Len(t)) : SubSeq(s, i + 1, i + Len(t)) = t

HttpPrefix == <<"h", "t", "t", "p", ":", "/", "/">>
HttpsPrefix == <<"h", "t", "t", "p", "s", ":", "/", "/">>

\* /^https?:\/\//i.test(s)
HasProtocol(s) ==
    StartsWith(ToLowerCase(s), HttpPrefix) \/ StartsWith(ToLowerCase(s), HttpsPrefix)

\* Mutant of normalizeUrl: http:// is upgraded to https://.
normalizeUrlUpgrading(url) ==
    LET trimmed == Trim(url)
    IN IF trimmed = <<>> THEN <<>>
       ELSE IF StartsWith(ToLowerCase(trimmed), HttpsPrefix) THEN trimmed
       ELSE IF StartsWith(ToLowerCase(trimmed), HttpPrefix)
            THEN HttpsPrefix \o SubSeq(trimmed, Len(HttpPrefix) + 1, Len(trimmed))
            ELSE HttpsPrefix \o trimmed

\* normalizeUrl
normalizeUrl(url) ==
    LET trimmed == Trim(url)
    IN IF trimmed = <<>> THEN <<>>
       ELSE IF HasProtocol(trimmed) THEN trimmed
       ELSE HttpsPrefix \o trimmed

\* ---- new URL(input), for inputs without leading or trailing whitespace
\*      and without '@', '?', '#', '\', '%', '[' and digits
\* the schemes whose URLs have a host
SpecialSchemes == {<<"h", "t", "t", "p">>, <<"h", "t", "t", "p", "s">>, <<"f", "t", "p">>}
Letters == {"a", "f", "h", "t", "p", "s", "g", "m", "H", "T", "P", "G", "M"}

RECURSIVE SkipSlashes(_)
SkipSlashes(s) ==
    IF s # <<>> /\ Head(s) = "/" THEN SkipSlashes(Tail(s)) ELSE s

\* the part of s before the first ch, all of s when there is none
Before(s, ch) ==
    LET i == IndexOf(s, ch) IN IF i = 0 THEN s ELSE SubSeq(s, 1, i - 1)

\* the part of s after the first ch, "" when there is none
After(s, ch) ==
    LET i == IndexOf(s, ch) IN IF i = 0 THEN <<>> ELSE SubSeq(s, i + 1, Len(s))

\* The URL parser: the scheme is the letters before the first ':', lower-cased;
\* without one the input is a relative URL without a base, a failure. After a
\* special scheme the slashes are skipped and the authority runs up to the
\* next '/'; its host (up to ':') must be non-empty and free of forbidden
\* host code points (here the space), and its port (after ':') empty or
\* digits (here empty). Any other scheme has an opaque path or a path of its
\* own and no requirement on it.
ParseURL(input) ==
    LET failure == [ok |-> FALSE, protocol |-> <<>>, hostname |-> <<>>]
        colon == IndexOf(input, ":")
        scheme == ToLowerCase(Before(input, ":"))
        authority == Before(SkipSlashes(After(input, ":")), "/")
        host == ToLowerCase(Before(authority, ":"))
        port == After(authority, ":")
    IN IF colon <= 1 \/ \E i \in 1..Len(scheme) : input[i] \notin Letters
       THEN failure
       ELSE IF scheme \in SpecialSchemes
            THEN IF host = <<>> \/ (\E i \in 1..Len(host) : host[i] \in Whitespace)
                    \/ port # <<>>
                 THEN failure
                 ELSE [ok |-> TRUE, protocol |-> Append(scheme, ":"), hostname |-> host]
            ELSE [ok |-> TRUE, protocol |-> Append(scheme, ":"), hostname |-> <<>>]

\* ---- QRValidationResult: valid, errors, warnings and the optional
\*      sanitized (<<>> when the property is absent, <<string>> otherwise)
Result(valid, errors, warnings, sanitized) ==
    [valid |-> valid, errors |-> errors, warnings |-> warnings, sanitized |-> sanitized]

\* validateUrl
validateUrl(url) ==
    IF url = <<>> \/ Trim(url) = <<>>
    THEN Result(FALSE, <<"URL is required">>, <<>>, <<>>)
    ELSE LET normalized == normalizeUrl(url)
             urlObj == ParseURL(normalized)
             protocolWarnings ==
                 IF urlObj.protocol \notin {<<"h", "t", "t", "p", ":">>,
                                            <<"h", "t", "t", "p", "s", ":">>}
                 THEN <<"Only HTTP and HTTPS protocols are recommended">>
                 ELSE <<>>
             errors ==
                 IF Includes(urlObj.hostname, <<".", ".">>)
                 THEN <<"Invalid hostname format">>
                 ELSE <<>>
             lengthWarnings ==
                 IF Len(normalized) > MaxUrlLength
                 THEN <<"URL is very long and may not scan well">>
                 ELSE <<>>
         IN IF urlObj.ok
            THEN Result(errors = <<>>, errors, protocolWarnings \o lengthWarnings,
                        <<normalized>>)
            ELSE Result(FALSE, <<"Invalid URL format">>, <<>>, <<>>)

\* ---- validateText
\* "BEL" stands for U+0007, a control character that is not whitespace
ControlChars == {"BEL"}

\* validateText
validateText(text) ==
    IF text = <<>> \/ Trim(text) = <<>>
    THEN Result(FALSE, <<"Text is required">>, <<>>, <<>>)
    ELSE LET trimmed == Trim(text)
             errors == IF Len(trimmed) > MaxTextLength
                       THEN <<"Text is too long (max 4000 characters)">>
                       ELSE <<>>
             lengthWarnings ==
                 IF Len(trimmed) <= MaxTextLength /\ Len(trimmed) > DenseTextLength
                 THEN <<"Long text may result in dense QR code">>
                 ELSE <<>>
             controlWarnings ==
                 IF \E i \in 1..Len(trimmed) : trimmed[i] \in ControlChars
                 THEN <<"Text contains control characters">>
                 ELSE <<>>
         IN Result(errors = <<>>, errors, lengthWarnings \o controlWarnings, <<trimmed>>)

\* ---- validateEmail
Min3(x, y, z) == IF x <= y /\ x <= z THEN x ELSE IF y <= z THEN y ELSE z

\* One row of the matrix of levenshteinDistance: currentRow after the inner
\* loop has filled its first j entries (row[1] is column 0).
RECURSIVE LevenshteinRow(_, _, _, _, _)
LevenshteinRow(prevRow, i, bch, a, j) ==
    IF j = 0 THEN <<i>>
    ELSE LET left == LevenshteinRow(prevRow, i, bch, a, j - 1)
             cell == IF bch = a[j]
                     THEN prevRow[j]
                     ELSE Min3(prevRow[j] + 1, left[j] + 1, prevRow[j + 1] + 1)
         IN Append(left, cell)

\* matrix[i], matrix[0] being 0..a.length
RECURSIVE LevenshteinMatrixRow(_, _, _)
LevenshteinMatrixRow(a, b, i) ==
    IF i = 0 THEN [j \in 1..(Len(a) + 1) |-> j - 1]
    ELSE LET prevRow == LevenshteinMatrixRow(a, b, i - 1)
         IN \* if (!currentRow || !prevRow) continue
            IF prevRow = <<>> THEN <<>>
            ELSE LevenshteinRow(prevRow, i, b[i], a, Len(a))

levenshteinDistance(a, b) ==
    IF Len(a) = 0 THEN Len(b)
    ELSE IF Len(b) = 0 THEN Len(a)
    ELSE LevenshteinMatrixRow(a, b, Len(b))[Len(a) + 1]

\* commonDomains
CommonDomains ==
    {<<"g", "m", "a", "i", "l", ".", "c", "o", "m">>,
     <<"y", "a", "h", "o", "o", ".", "c", "o", "m">>,
     <<"h", "o", "t", "m", "a", "i", "l", ".", "c", "o", "m">>,
     <<"o", "u", "t", "l", "o", "o", "k", ".", "c", "o", "m">>}

\* /^[^\s@]+@[^\s@]+\.[^\s@]+$/.test(s)
EmailRegexTest(s) ==
    LET at == IndexOf(s, "@")
        domain == After(s, "@")
    IN /\ \A i \in 1..Len(s) : s[i] \notin Whitespace
       /\ at > 1
       /\ IndexOf(domain, "@") = 0
       /\ \E i \in 2..(Len(domain) - 1) : domain[i] = "."

\* validateEmail. trimmed.split('@')[1] is the text between the first '@'
\* and the second; the warning names the domain that is one edit away.
validateEmail(email) ==
    IF email = <<>> \/ Trim(email) = <<>>
    THEN Result(FALSE, <<"Email is required">>, <<>>, <<>>)
    ELSE LET trimmed == Trim(email)
             formatErrors == IF ~EmailRegexTest(trimmed)
                             THEN <<"Invalid email format">> ELSE <<>>
             lengthErrors == IF Len(trimmed) > MaxEmailLength
                             THEN <<"Email is too long">> ELSE <<>>
             errors == formatErrors \o lengthErrors
             domain == ToLowerCase(Before(After(trimmed, "@"), "@"))
             similar == {d \in CommonDomains :
                            domain # <<>> /\ d # domain /\ levenshteinDistance(d, domain) = 1}
             warnings == IF similar # {} THEN <<"Did you mean ...?">> ELSE <<>>
         IN Result(errors = <<>>, errors, warnings, <<ToLowerCase(trimmed)>>)

\* ---- validatePhone
Digits == {"5"}
\* /[\s\-\(\)\.]/
PhoneFormatting == Whitespace \cup {"-", "(", ")", "."}

\* s.replace(/[...]/g, '') for a class of characters
RECURSIVE RemoveAll(_, _)
RemoveAll(s, class) ==
    IF s = <<>> THEN <<>>
    ELSE IF Head(s) \in class THEN RemoveAll(Tail(s), class)
    ELSE <<Head(s)>> \o RemoveAll(Tail(s), class)

\* s.replace(/\+/, ''): the first '+' is removed
RemoveFirstPlus(s) ==
    LET i == IndexOf(s, "+")
    IN IF i = 0 THEN s ELSE SubSeq(s, 1, i - 1) \o SubSeq(s, i + 1, Len(s))

\* validatePhone
validatePhone(phone) ==
    IF phone = <<>> \/ Trim(phone) = <<>>
    THEN Result(TRUE, <<>>, <<>>, <<<<>>>>)
    ELSE LET trimmed == Trim(phone)
             cleaned == RemoveAll(trimmed, PhoneFormatting)
             \* !/^[\+\d]+$/.test(cleaned)
             errors ==
                 IF cleaned = <<>> \/ \E i \in 1..Len(cleaned) : cleaned[i] \notin Digits \cup {"+"}
                 THEN <<"Phone number contains invalid characters">>
                 ELSE <<>>
             warnings ==
                 IF Len(RemoveFirstPlus(cleaned)) < MinPhoneLength
                 THEN <<"Phone number seems too short">>
                 ELSE IF Len(cleaned) > MaxPhoneLength
                      THEN <<"Phone number seems too long">>
                      ELSE <<>>
         IN Result(errors = <<>>, errors, warnings, <<cleaned>>)

\* ---- generateVCard
\* The fixed texts of a vCard ("BEGIN:VCARD", "FN:", ...) and the line feed
\* ("LF") are written as one symbol each; the field values are strings of
\* characters. An optional property is <<>> when it is absent and <<value>>
\* when it is present.
\* value || ''
OrEmpty(optional) == IF optional = <<>> THEN <<>> ELSE optional[1]

\* lines.join('\n')
RECURSIVE Join(_)
Join(lines) ==
    IF lines = <<>> THEN <<>>
    ELSE IF Len(lines) = 1 THEN lines[1]
    ELSE lines[1] \o <<"LF">> \o Join(Tail(lines))

\* the lines of the name, present when `${firstName} ${lastName}`.trim() is
NameLines(contact) ==
    LET fullName == Trim(contact.firstName \o <<" ">> \o contact.lastName)
    IN IF fullName # <<>>
       THEN << <<"FN:">> \o fullName,
               <<"N:">> \o contact.lastName \o <<";">> \o contact.firstName \o <<";;;">> >>
       ELSE <<>>

AddressLines(contact) ==
    IF contact.address = <<>> THEN <<>>
    ELSE LET address == contact.address[1]
         IN IF OrEmpty(address.street) # <<>> \/ OrEmpty(address.city) # <<>>
               \/ OrEmpty(address.state) # <<>> \/ OrEmpty(address.zip) # <<>>
               \/ OrEmpty(address.country) # <<>>
            THEN << <<"ADR:;;">> \o OrEmpty(address.street) \o <<";">>
                    \o OrEmpty(address.city) \o <<";">> \o OrEmpty(address.state)
                    \o <<";">> \o OrEmpty(address.zip) \o <<";">>
                    \o OrEmpty(address.country) >>
            ELSE <<>>

\* lines.push(label + value) under if (value)
LineIf(label, value) == IF value # <<>> THEN << <<label>> \o value >> ELSE <<>>

hasData(contact) ==
    \/ contact.firstName # <<>>
    \/ contact.lastName # <<>>
    \/ contact.phone # <<>>
    \/ contact.email # <<>>
    \/ contact.organization # <<>>
    \/ contact.url # <<>>

\* generateVCard
generateVCard(contact) ==
    IF ~hasData(contact) THEN <<>>
    ELSE Join(<< <<"BEGIN:VCARD">>, <<"VERSION:3.0">> >>
              \o NameLines(contact)
              \o LineIf("ORG:", contact.organization)
              \o LineIf("TEL:", contact.phone)
              \o LineIf("EMAIL:", contact.email)
              \o LineIf("URL:", contact.url)
              \o AddressLines(contact)
              \o LineIf("BDAY:", OrEmpty(contact.birthday))
              \o LineIf("NOTE:", OrEmpty(contact.notes))
              \o << <<"END:VCARD">> >>)

\* ---- validateContact
\* Mutant of validateContact: valid is computed before the errors of the url
\* are collected.
validateContactValidEarly(contact) ==
    IF ~hasData(contact)
    THEN Result(FALSE, <<"At least one contact field is required">>, <<>>, <<>>)
    ELSE LET emailResult == validateEmail(contact.email)
             phoneResult == validatePhone(contact.phone)
             urlResult == validateUrl(contact.url)
             early == (IF contact.email # <<>> THEN emailResult.errors ELSE <<>>)
                      \o (IF contact.phone # <<>> THEN phoneResult.errors ELSE <<>>)
             errors == early \o (IF contact.url # <<>> THEN urlResult.errors ELSE <<>>)
             warnings == (IF contact.email # <<>> THEN emailResult.warnings ELSE <<>>)
                         \o (IF contact.phone # <<>> THEN phoneResult.warnings ELSE <<>>)
                         \o (IF contact.url # <<>> THEN urlResult.warnings ELSE <<>>)
         IN Result(early = <<>>, errors, warnings, <<generateVCard(contact)>>)

\* validateContact
validateContact(contact) ==
    IF ~hasData(contact)
    THEN Result(FALSE, <<"At least one contact field is required">>, <<>>, <<>>)
    ELSE LET emailResult == validateEmail(contact.email)
             phoneResult == validatePhone(contact.phone)
             urlResult == validateUrl(contact.url)
             errors == (IF contact.email # <<>> THEN emailResult.errors ELSE <<>>)
                       \o (IF contact.phone # <<>> THEN phoneResult.errors ELSE <<>>)
                       \o (IF contact.url # <<>> THEN urlResult.errors ELSE <<>>)
             warnings == (IF contact.email # <<>> THEN emailResult.warnings ELSE <<>>)
                         \o (IF contact.phone # <<>> THEN phoneResult.warnings ELSE <<>>)
                         \o (IF contact.url # <<>> THEN urlResult.warnings ELSE <<>>)
         IN Result(errors = <<>>, errors, warnings, <<generateVCard(contact)>>)

\* ---- the inputs of the validators
Pads == SeqsUpTo(Whitespace, MaxPad)

UrlPrefixes ==
    {<<>>, HttpPrefix, HttpsPrefix, <<"H", "T", "T", "P", ":", "/", "/">>,
     <<"f", "t", "p", ":", "/", "/">>}

\* URLs of a few characters, and URLs about MaxUrlLength characters long
UrlInputs ==
    {lead \o prefix \o rest : lead \in Pads, prefix \in UrlPrefixes,
                              rest \in SeqsUpTo({"a", ".", "/", ":", " "}, MaxUrlRest)}
    \cup {prefix \o Repeat("a", n) \o trail :
             prefix \in {<<>>, HttpPrefix},
             n \in (MaxUrlLength - Len(HttpsPrefix))..(MaxUrlLength - Len(HttpPrefix) + 1),
             trail \in Pads}

\* texts of the lengths around the two limits, with and without a control
\* character, with and without whitespace around them
TextLengths ==
    0..2 \cup (DenseTextLength - 1)..(DenseTextLength + 1)
         \cup (MaxTextLength - 1)..(MaxTextLength + 1)

TextInputs ==
    {lead \o first \o Repeat("a", n) \o trail :
        lead \in Pads, first \in {<<>>, <<"BEL">>}, n \in TextLengths, trail \in Pads}

EmailDomains ==
    {<<>>,
     <<"@", "a", ".", "a">>,
     <<"@", "g", "m", "a", "i", "l", ".", "c", "o", "m">>,
     <<"@", "G", "M", "a", "i", "l", ".", "c", "o", "m">>,
     <<"@", "g", "m", "a", "i", ".", "c", "o", "m">>}

\* addresses of a few characters before the domain, and addresses about
\* MaxEmailLength characters long
EmailInputs ==
    {lead \o local \o rest \o domain :
        lead \in Pads, local \in {<<>>, Repeat("a", MaxEmailLength - 5)},
        rest \in SeqsUpTo({"a", "@", ".", " "}, MaxEmailRest), domain \in EmailDomains}

PhoneInputs ==
    {lead \o rest \o Repeat("5", n) :
        lead \in Pads, rest \in SeqsUpTo({"+", "5", "-", "(", " ", "x"}, MaxPhoneRest),
        n \in {0, MinPhoneLength - 1, MaxPhoneLength - 1}}

\* address: absent, without a value, with a street, with an empty street
\* and a city
Addresses ==
    LET absent == [street |-> <<>>, city |-> <<>>, state |-> <<>>, zip |-> <<>>,
                   country |-> <<>>]
    IN {<<>>, <<absent>>,
        <<[absent EXCEPT !.street = << <<"s">> >>]>>,
        <<[absent EXCEPT !.street = << <<>> >>, !.city = << <<"c">> >>]>>}

\* QRContactInfo
Contacts ==
    [firstName : {<<>>, <<"a">>, <<" ">>},
     lastName : {<<>>, <<"b">>},
     phone : {<<>>, <<"5">>, <<"x">>},
     email : {<<>>, <<"a", "@", "a", ".", "a">>, <<"a">>},
     organization : {<<>>, <<"o">>},
     url : {<<>>, <<"a">>, HttpPrefix \o <<"a">>, <<".", ".">>, <<" ">>},
     address : Addresses,
     birthday : {<<>>, << <<"d">> >>},
     notes : {<<>>, << <<"n">> >>}]

\* ---- one call of a validator or an encoder on the input
Called(fn, result) == [validation EXCEPT !.fn = fn, !.result = <<result>>]

Apply(kind, fn, result) ==
    /\ validation.kind = kind
    /\ validation' = Called(fn, result)
    /\ UNCHANGED <<now, localStorageItem, idb, lastOp, inserted, ops, indexedDBInWindow,
                   created, qrious, hook, opener>>
    /\ UNCHANGED factoryVars

CallNormalizeUrl == Apply("url", "normalizeUrl", normalizeUrl(validation.input))
\* normalizeUrl(normalizeUrl(input))
CallNormalizeUrlAgain ==
    /\ validation.fn = "normalizeUrl"
    /\ Apply("url", "normalizeUrl twice", normalizeUrl(validation.result[1]))
CallValidateUrl == Apply("url", "validateUrl", validateUrl(validation.input))
CallValidateText == Apply("text", "validateText", validateText(validation.input))
CallValidateEmail == Apply("email", "validateEmail", validateEmail(validation.input))
CallValidatePhone == Apply("phone", "validatePhone", validatePhone(validation.input))
CallGenerateVCard == Apply("contact", "generateVCard", generateVCard(validation.input))
CallValidateContact == Apply("contact", "validateContact", validateContact(validation.input))

Input(kind, input) == [kind |-> kind, fn |-> "none", input |-> input, result |-> <<>>]

InitValidate ==
    /\ InitFactory
    /\ watching = FALSE
    /\ windowDefined
    /\ InitStores
    /\ indexedDBInWindow = TRUE
    /\ InitQRious
    /\ InitHook
    /\ InitOpener
    /\ \/ \E input \in UrlInputs : validation = Input("url", input)
       \/ \E input \in TextInputs : validation = Input("text", input)
       \/ \E input \in EmailInputs : validation = Input("email", input)
       \/ \E input \in PhoneInputs : validation = Input("phone", input)
       \/ \E input \in Contacts : validation = Input("contact", input)

NextValidate ==
    \/ CallNormalizeUrl
    \/ CallNormalizeUrlAgain
    \/ CallValidateUrl
    \/ CallValidateText
    \/ CallValidateEmail
    \/ CallValidatePhone
    \/ CallGenerateVCard
    \/ CallValidateContact

SpecValidate == InitValidate /\ [][NextValidate]_vars

\* ======================================================= QRiousStrategy
\* One QRiousStrategy instance. qrious.scripts are the script elements the
\* instance has appended to document.head, each "loading", "loaded" or
\* "failed"; qrious.calls are its isAvailable() and generate() calls, each
\* with the script it awaits (0 for none) and what it returned. The script,
\* when it loads, defines window.QRious.

unitFrameQRious ==
    /\ UNCHANGED <<now, localStorageItem, idb, lastOp, inserted, ops, indexedDBInWindow,
                   created, validation, hook, opener>>
    /\ UNCHANGED factoryVars

QRiousCall(method, script, returned) ==
    [method |-> method, script |-> script, returned |-> returned]

\* loadQRious(), called where window.QRious is not defined: a new script
\* element is appended, and the promise settles with its onload or onerror.
loadQRious(method) ==
    qrious' = [qrious EXCEPT
                 !.scripts = Append(@, "loading"),
                 !.calls = Append(@, QRiousCall(method, Len(qrious.scripts) + 1, <<>>))]

Returns(method, value) ==
    qrious' = [qrious EXCEPT !.calls = Append(@, QRiousCall(method, 0, <<value>>))]

\* isAvailable(), to its return or to its await
QRiousStrategyIsAvailable ==
    /\ Len(qrious.calls) < MaxQRiousCalls
    /\ IF ~windowDefined
       THEN Returns("isAvailable", FALSE)
       ELSE IF qrious.qriousLoaded \/ qrious.windowQRious
            THEN Returns("isAvailable", TRUE)
            ELSE loadQRious("isAvailable")
    /\ unitFrameQRious

\* what generate() returns, as far as success goes
Generated(success) == [success |-> success]

\* generate(), to its return or to its await; without a window the read of
\* window.QRious throws, which the catch turns into a failure
QRiousStrategyGenerate ==
    /\ Len(qrious.calls) < MaxQRiousCalls
    /\ IF ~windowDefined
       THEN Returns("generate", Generated(FALSE))
       ELSE IF qrious.windowQRious
            THEN Returns("generate", Generated(TRUE))
            ELSE loadQRious("generate")
    /\ unitFrameQRious

\* the call that awaits script i returns value(method)
Resumed(i, success) ==
    [c \in 1..Len(qrious.calls) |->
        IF qrious.calls[c].script = i /\ qrious.calls[c].returned = <<>>
        THEN [qrious.calls[c] EXCEPT
                 !.returned = IF qrious.calls[c].method = "isAvailable"
                              THEN <<success>>
                              ELSE <<Generated(success)>>]
        ELSE qrious.calls[c]]

\* script.onload of script i, and the call that awaited it
ScriptOnload(i) ==
    /\ qrious.scripts[i] = "loading"
    /\ qrious' = [qrious EXCEPT !.scripts[i] = "loaded",
                                !.windowQRious = TRUE,
                                !.qriousLoaded = TRUE,
                                !.calls = Resumed(i, TRUE)]
    /\ unitFrameQRious

\* script.onerror of script i, and the call that awaited it
ScriptOnerror(i) ==
    /\ qrious.scripts[i] = "loading"
    /\ qrious' = [qrious EXCEPT !.scripts[i] = "failed",
                                !.calls = Resumed(i, FALSE)]
    /\ unitFrameQRious

InitQRiousPage ==
    /\ InitFactory
    /\ watching = FALSE
    /\ windowDefined \in BOOLEAN
    /\ InitStores
    /\ indexedDBInWindow = TRUE
    /\ validation = NoValidation
    /\ InitHook
    /\ InitOpener
    /\ \E windowQRious \in BOOLEAN :
          /\ windowQRious => windowDefined
          /\ qrious = NewQRious(windowQRious)

NextQRious ==
    \/ QRiousStrategyIsAvailable
    \/ QRiousStrategyGenerate
    \/ \E i \in 1..Len(qrious.scripts) : ScriptOnload(i)
    \/ \E i \in 1..Len(qrious.scripts) : ScriptOnerror(i)

SpecQRious == InitQRiousPage /\ [][NextQRious]_vars

\* ======================================================= useQRGenerator
\* One mounted useQRGenerator. hook.result and hook.error are null (<<>>) or
\* a value; hook.pending are the generate() calls at their await, each with
\* its currentId. History: the calls are numbered in the order they started
\* (hook.started), hook.superseded are the calls that were pending when a
\* later generate() started or reset() ran, hook.completed those that ended.

unitFrameHook ==
    /\ UNCHANGED <<now, localStorageItem, idb, lastOp, inserted, ops, indexedDBInWindow,
                   created, validation, qrious, opener>>
    /\ UNCHANGED factoryVars

\* generate(options), to its await
HookGenerate ==
    /\ hook.started < MaxGenerations
    /\ LET currentId == hook.generationIdRef + 1
       IN hook' = [hook EXCEPT
                     !.generationIdRef = currentId,
                     !.isGenerating = TRUE,
                     !.error = <<>>,
                     !.pending = @ \cup {[call |-> hook.started + 1, currentId |-> currentId]},
                     !.started = @ + 1,
                     !.superseded = @ \cup {p.call : p \in hook.pending}]
    /\ unitFrameHook

\* What the awaited generator.generate(options) settles with: a result with
\* success, a result without (with an error message or with none), an
\* exception that is an Error or one that is not.
Outcomes ==
    {[kind |-> "success", error |-> <<>>],
     [kind |-> "failure", error |-> <<"No QR generation strategy available">>],
     [kind |-> "failure", error |-> <<>>],
     [kind |-> "threw", error |-> <<"Failed to fetch">>],
     [kind |-> "threw", error |-> <<>>]}

\* the finally block without its test
FinallyUnguarded(h, currentId) == [h EXCEPT !.isGenerating = FALSE]

\* the finally block
Finally(h, currentId) ==
    IF currentId = h.generationIdRef THEN [h EXCEPT !.isGenerating = FALSE] ELSE h

\* the try and catch blocks after the await
AfterAwait(h, p, outcome) ==
    IF p.currentId # h.generationIdRef
    THEN h
    ELSE IF outcome.kind = "success"
         THEN [h EXCEPT !.result = <<[success |-> TRUE, call |-> p.call]>>]
         ELSE IF outcome.kind = "failure"
              THEN [h EXCEPT !.error = IF outcome.error = <<>>
                                       THEN <<"Generation failed">>
                                       ELSE outcome.error]
              ELSE [h EXCEPT !.error = IF outcome.error = <<>>
                                       THEN <<"Unknown error">>
                                       ELSE outcome.error]

\* the awaited generate of pending call p settles, and the call runs to its end
HookSettle(p, outcome) ==
    /\ p \in hook.pending
    /\ hook' = [Finally(AfterAwait(hook, p, outcome), p.currentId) EXCEPT
                  !.pending = @ \ {p},
                  !.completed = @ \cup {p.call}]
    /\ unitFrameHook

\* reset()
HookReset ==
    /\ hook.resets < MaxResets
    /\ hook' = [hook EXCEPT
                  !.generationIdRef = @ + 1,
                  !.result = <<>>,
                  !.error = <<>>,
                  !.isGenerating = FALSE,
                  !.resets = @ + 1,
                  !.superseded = @ \cup {p.call : p \in hook.pending}]
    /\ unitFrameHook

InitHookMounted ==
    /\ InitFactory
    /\ watching = FALSE
    /\ windowDefined
    /\ InitProviders
    /\ indexedDBInWindow = TRUE

NextHook ==
    \/ HookGenerate
    \/ \E p \in hook.pending, outcome \in Outcomes : HookSettle(p, outcome)
    \/ HookReset

SpecHook == InitHookMounted /\ [][NextHook]_vars

\* ================================================ IndexedDBProvider.init
\* One IndexedDBProvider under overlapping operations. opener.db is null or
\* the open database, opener.initPromise null or a promise that is pending,
\* fulfilled or rejected; opener.opens counts the indexedDB.open calls.
\* opener.operations are the save() and get() calls: where each one is
\* ("init" at the await of init(), "awaiting" inside init() at the await of
\* initPromise, "transaction" with its transaction created, "rejected"), and
\* as history what initPromise was when the call started and what db was when
\* the call created its transaction.

unitFrameOpener ==
    /\ UNCHANGED <<now, localStorageItem, idb, lastOp, inserted, ops, indexedDBInWindow,
                   created, validation, qrious, hook>>
    /\ UNCHANGED factoryVars

Operation(method, pc, o) ==
    [method |-> method, pc |-> pc, startedAt |-> o.initPromise, dbAtTransaction |-> "none"]

\* init() that calls indexedDB.open whenever there is no database yet
initOpeningAgain(o, method) ==
    IF o.db # "null"
    THEN [o EXCEPT !.operations = Append(@, Operation(method, "init", o))]
    ELSE [o EXCEPT !.initPromise = "pending",
                   !.opens = @ + 1,
                   !.operations = Append(@, Operation(method, "awaiting", o))]

\* await this.init(), called by an operation, up to the first await
init(o, method) ==
    IF o.db # "null"
    THEN [o EXCEPT !.operations = Append(@, Operation(method, "init", o))]
    ELSE IF o.initPromise # "null"
         THEN [o EXCEPT !.operations = Append(@, Operation(method, "awaiting", o))]
         ELSE [o EXCEPT !.initPromise = "pending",
                        !.opens = @ + 1,
                        !.operations = Append(@, Operation(method, "awaiting", o))]

\* save(record) or get(id) is called
OpenerCall(method) ==
    /\ Len(opener.operations) < MaxOpening
    /\ opener' = init(opener, method)
    /\ unitFrameOpener

\* request.onsuccess of the open request
OpenOnsuccess ==
    /\ opener.initPromise = "pending"
    /\ opener' = [opener EXCEPT !.db = "open", !.initPromise = "fulfilled"]
    /\ unitFrameOpener

\* request.onerror of the open request
OpenOnerror ==
    /\ opener.initPromise = "pending"
    /\ opener' = [opener EXCEPT !.initPromise = "rejected"]
    /\ unitFrameOpener

\* operation i goes on after await this.initPromise: init() returns, or
\* throws what the promise was rejected with
InitSettles(i) ==
    /\ opener.operations[i].pc = "awaiting"
    /\ opener.initPromise \in {"fulfilled", "rejected"}
    /\ opener' = [opener EXCEPT !.operations[i].pc =
                     IF opener.initPromise = "fulfilled" THEN "init" ELSE "rejected"]
    /\ unitFrameOpener

\* operation i goes on after await this.init(): this.db!.transaction(...),
\* which throws a TypeError where db is null
OpenTransaction(i) ==
    /\ opener.operations[i].pc = "init"
    /\ opener' = [opener EXCEPT
                    !.operations[i].pc = IF opener.db = "null" THEN "rejected"
                                         ELSE "transaction",
                    !.operations[i].dbAtTransaction = opener.db]
    /\ unitFrameOpener

InitOpening ==
    /\ InitFactory
    /\ watching = FALSE
    /\ windowDefined
    /\ InitProviders
    /\ indexedDBInWindow = TRUE

NextOpening ==
    \/ \E method \in {"save", "get"} : OpenerCall(method)
    \/ OpenOnsuccess
    \/ OpenOnerror
    \/ \E i \in 1..Len(opener.operations) : InitSettles(i)
    \/ \E i \in 1..Len(opener.operations) : OpenTransaction(i)

SpecOpen == InitOpening /\ [][NextOpening]_vars

\* =================================================================== claims
\* Definitions the statements below share. They are written from the claims,
\* not from the operators above.

\* content is missing, empty or whitespace-only
Blank(options) ==
    ~options.present \/ \A i \in 1..Len(options.content) : options.content[i] \in Whitespace

WatchedCall == calls[Watched]

IsProbe(e) == e.method = "isAvailable"
IsScanProbe(e) == e.method = "isAvailable" /\ e.phase = "scan"

\* the isAvailable invocations of the watched call, in the order they were made
Probes == SelectSeq(trace.log, IsProbe)
ScanProbes == SelectSeq(trace.log, IsScanProbe)

NoSuccessSoFar == \A k \in 1..Len(trace.outcomes) : trace.outcomes[k] # "success"

\* success with dataUrl and no error, or failure with error and no dataUrl
WellShaped(r) ==
    \/ r.success /\ "dataUrl" \in DOMAIN r /\ "error" \notin DOMAIN r
    \/ ~r.success /\ "error" \in DOMAIN r /\ "dataUrl" \notin DOMAIN r

\* C1: generate never rejects, whatever the strategies do: a strategy whose
\* isAvailable or generate throws, the memoized one on the fast path
\* included, counts as failed and the call resolves to a result.
C1_NeverRejects ==
    \A c \in CallSlots : calls[c].settled # "rejected"

\* the place of a registered strategy in the list
Pos(sid) == CHOOSE i \in 1..Len(strategies) : strategies[i].sid = sid

\* the strategies that were registered when the watched call began
KnownAtStart == {n \in 1..Len(registered) : n <= trace.known}

InvokedSids == {trace.log[k].sid : k \in 1..Len(trace.log)}

\* C2: with no strategy memoized generate probes the strategies one at a
\* time in ascending priority order (ties in registration order); it returns
\* the result of the first strategy that is available and generates
\* successfully: every strategy earlier in the order has been probed and was
\* unavailable, threw or failed, and no strategy later in the order has been
\* invoked; if none succeeds every strategy has been probed. "Every strategy"
\* is read as every strategy that was registered when the call began.
C2_OrderedScan ==
    (/\ watching
     /\ WatchedCall.pc # "idle"
     /\ ~Blank(WatchedCall.options)
     /\ trace.memoAtStart = Undefined)
    => /\ Len(trace.outcomes) = Len(trace.log) - (IF WatchedCall.pc = "done" THEN 0 ELSE 1)
       /\ \A i \in 1..Len(Probes) :
            \A j \in 1..(i - 1) : Pos(Probes[j].sid) <= Pos(Probes[i].sid)
       /\ \A k \in 1..Len(trace.log) :
            /\ trace.log[k].phase = "scan"
            /\ trace.log[k].method = "generate" =>
                 /\ k > 1
                 /\ trace.log[k - 1] = [sid |-> trace.log[k].sid,
                                        method |-> "isAvailable", phase |-> "scan"]
                 /\ trace.outcomes[k - 1] = "true"
            /\ (trace.log[k].method = "isAvailable" /\ k > 1) =>
                 IF trace.log[k - 1].method = "isAvailable"
                 THEN trace.outcomes[k - 1] \in {"false", "throw"}
                 ELSE trace.outcomes[k - 1] \in {"failure", "throw"}
       /\ WatchedCall.pc = "done" =>
            /\ WatchedCall.settled = "resolved"
            /\ IF NoSuccessSoFar
               THEN /\ KnownAtStart \subseteq InvokedSids
                    /\ ~WatchedCall.result[1].success
               ELSE LET last == trace.log[Len(trace.log)]
                    IN /\ trace.outcomes[Len(trace.log)] = "success"
                       /\ \A k \in 1..(Len(trace.log) - 1) : trace.outcomes[k] # "success"
                       /\ last.method = "generate"
                       /\ WatchedCall.result[1].success
                       /\ WatchedCall.result[1].strategy = registered[last.sid].name
                       /\ Returned(WatchedCall.result[1]) \in
                            StrategyGenerate(registered[last.sid], WatchedCall.options)
                       /\ \A n \in KnownAtStart :
                            Pos(n) < Pos(last.sid) => n \in InvokedSids
                       /\ \A n \in InvokedSids : Pos(n) <= Pos(last.sid)

\* The same, and the probes being the strategies of the list position by
\* position, for the calls during which registerStrategy does not re-sort
\* the list.
OrderedScanOfFixedList ==
    ~trace.listChanged =>
        /\ C2_OrderedScan
        /\ (watching /\ trace.memoAtStart = Undefined) =>
              \A i \in 1..Len(Probes) :
                  i <= Len(strategies) /\ Probes[i].sid = strategies[i].sid

\* C3: when lastSuccessfulStrategy names the registered strategy B, the call
\* probes B.isAvailable() before anything else; if B is available and
\* B.generate succeeds that result is returned and nothing else is invoked;
\* otherwise the call falls back to the full priority-ordered scan.
C3_FastPathThenScan ==
    (/\ watching
     /\ WatchedCall.pc = "done"
     /\ ~Blank(WatchedCall.options)
     /\ trace.memoAtStart # Undefined
     /\ ~trace.listChanged)
    => LET B == Find(strategies, trace.memoAtStart)[1]
       IN /\ trace.log[1] = [sid |-> B.sid, method |-> "isAvailable", phase |-> "fast"]
          /\ IF trace.outcomes[1] = "true" /\ trace.outcomes[2] = "success"
             THEN /\ Len(trace.log) = 2
                  /\ trace.log[2] = [sid |-> B.sid, method |-> "generate", phase |-> "fast"]
                  /\ WatchedCall.settled = "resolved"
                  /\ WatchedCall.result[1].success
                  /\ WatchedCall.result[1].strategy = B.name
             ELSE /\ Len(ScanProbes) >= 1
                  /\ \A i \in 1..Len(ScanProbes) : ScanProbes[i].sid = strategies[i].sid
                  /\ Len(ScanProbes) = Len(strategies)
                       \/ trace.outcomes[Len(trace.outcomes)] = "success"

\* The same, for the calls in which the memoized strategy does not throw on
\* the fast path.
FastPathThenScanUnlessThrown ==
    (\A k \in 1..Len(trace.outcomes) :
        trace.log[k].phase = "fast" => trace.outcomes[k] # "throw")
    => C3_FastPathThenScan

\* C4: when every strategy is unavailable, throws or returns failure, a call
\* with non-empty content resolves to success=false with the error
\* "All generation strategies failed".
C4_Exhaustion ==
    (/\ watching
     /\ WatchedCall.pc = "done"
     /\ ~Blank(WatchedCall.options)
     /\ NoSuccessSoFar)
    => /\ WatchedCall.settled = "resolved"
       /\ WatchedCall.result # <<>>
       /\ ~WatchedCall.result[1].success
       /\ WatchedCall.result[1].error = "All generation strategies failed"

\* The same, for the calls in which no strategy throws on the fast path.
ExhaustionUnlessThrown ==
    (\A k \in 1..Len(trace.outcomes) :
        trace.log[k].phase = "fast" => trace.outcomes[k] # "throw")
    => C4_Exhaustion

C5_State ==
    (watching /\ WatchedCall.pc # "idle" /\ Blank(WatchedCall.options))
    => /\ WatchedCall.pc = "done"
       /\ WatchedCall.settled = "resolved"
       /\ WatchedCall.result # <<>>
       /\ ~WatchedCall.result[1].success
       /\ WatchedCall.result[1].error = "Content is required"
       /\ trace.log = <<>>

C5_Step ==
    \A c \in CallSlots :
        (calls[c].pc = "idle" /\ calls'[c].pc # "idle" /\ Blank(calls'[c].options))
        => /\ lastSuccessfulStrategy' = lastSuccessfulStrategy
           /\ strategies' = strategies

\* C5: a call whose content is missing, empty or whitespace-only resolves to
\* success=false with the error "Content is required", invokes no strategy,
\* and leaves lastSuccessfulStrategy and the strategy list as they were.
C5_ContentRequired == []C5_State /\ [][C5_Step]_vars

\* whitespace-only content was rejected while a strategy was memoized
C5_Witness ==
    /\ watching
    /\ WatchedCall.pc = "done"
    /\ WatchedCall.options.present
    /\ WatchedCall.options.content # <<>>
    /\ Blank(WatchedCall.options)
    /\ ~WatchedCall.result[1].success
    /\ WatchedCall.result[1].error = "Content is required"
    /\ lastSuccessfulStrategy # Undefined

ScanWon(c) ==
    /\ calls[c].pc = "scanGen"
    /\ calls'[c].pc = "done"
    /\ calls'[c].result # <<>>
    /\ calls'[c].result[1].success

C6_Step ==
    /\ lastSuccessfulStrategy' # lastSuccessfulStrategy => \E c \in CallSlots : ScanWon(c)
    /\ \A c \in CallSlots :
         ScanWon(c) => lastSuccessfulStrategy' = calls'[c].result[1].strategy
    /\ lastSuccessfulStrategy # Undefined => lastSuccessfulStrategy' # Undefined

\* C6: over any interleaving of overlapping calls lastSuccessfulStrategy
\* changes only when an ordered scan has just won, to the name of the
\* strategy that won it (the last writer wins); it is unset until then and
\* no failed or refused call changes or clears it.
C6_MemoWrittenOnSuccessOnly == [][C6_Step]_vars

\* two overlapping scans were won by different strategies; the later wrote
C6_Witness ==
    /\ \A c \in {1, 2} :
         /\ calls[c].pc = "done"
         /\ calls[c].lastStrategy = <<>>
         /\ calls[c].result # <<>>
         /\ calls[c].result[1].success
    /\ calls[1].result[1].strategy = "qrious"
    /\ calls[2].result[1].strategy = "google-charts"
    /\ lastSuccessfulStrategy = "qrious"

BuiltIn == {QRious, GoogleCharts, QRServer}

\* C7: every result generate returns, and every result the generate method
\* of the three built-in strategies returns, is either a success with
\* dataUrl and no error or a failure with error and no dataUrl.
C7_ResultShape ==
    /\ \A c \in CallSlots : calls[c].result # <<>> => WellShaped(calls[c].result[1])
    /\ \A s \in BuiltIn, options \in RequestOptions :
         ~Blank(options) =>
            \A out \in StrategyGenerate(s, options) : ~out.threw /\ WellShaped(out.value[1])

\* the engine returned its own exhaustion result with the window defined
C7_Witness ==
    /\ watching
    /\ windowDefined
    /\ WatchedCall.pc = "done"
    /\ WatchedCall.result # <<>>
    /\ ~WatchedCall.result[1].success
    /\ WatchedCall.result[1].error = "All generation strategies failed"

\* C8: after any sequence of registerStrategy calls the strategy list holds
\* every registered strategy exactly once, in ascending priority, the
\* strategies of equal priority in registration order.
C8_SortedStable ==
    /\ Len(strategies) = Len(registered)
    /\ \A n \in 1..Len(registered) :
         /\ registered[n].sid = n
         /\ Cardinality({i \in 1..Len(strategies) : strategies[i] = registered[n]}) = 1
    /\ \A i, j \in 1..Len(strategies) :
         i < j => \/ strategies[i].priority < strategies[j].priority
                  \/ /\ strategies[i].priority = strategies[j].priority
                     /\ strategies[i].sid < strategies[j].sid

\* three third-party strategies of one priority, tied with a built-in one
C8_Witness ==
    /\ Len(registered) = 6
    /\ \A n \in 4..6 : registered[n].priority = GoogleCharts.priority

StoredLS == LSGetAll(localStorageItem)

CountOf(all, id) == Cardinality({i \in 1..Len(all) : all[i].id = id})

\* save(r) on the LocalStorageProvider is an upsert by id, and idempotent
UpsertLS(r) ==
    LET after == LSSave(localStorageItem, r)
    IN /\ LSGet(after, r.id) = <<r>>
       /\ \A id \in Ids \ {r.id} : LSGet(after, id) = LSGet(localStorageItem, id)
       /\ CountOf(LSGetAll(after), r.id) = 1
       /\ Len(LSGetAll(after)) =
             Len(StoredLS) + (IF CountOf(StoredLS, r.id) = 0 THEN 1 ELSE 0)
       /\ LSSave(after, r) = after

\* save(r) on the IndexedDBProvider, when it resolves, is an upsert by id,
\* and idempotent
UpsertIDB(r) ==
    \A open \in {"success", "error"} :
        LET saved == IDBSave(idb, r, open)
            after == saved.idb
        IN saved.outcome = "resolved" =>
             /\ \A again \in {"success", "error"} :
                  /\ IDBGet(after, r.id, again).outcome = "resolved"
                  /\ IDBGet(after, r.id, again).value = <<r>>
                  /\ \A id \in Ids \ {r.id} :
                       IDBGet(after, id, again).value = StoreGet(idb.store, id)
                  /\ IDBSave(after, r, again) = [outcome |-> "resolved", idb |-> after]
             /\ CountOf(after.store, r.id) = 1
             /\ Len(after.store) =
                   Len(idb.store) + (IF CountOf(idb.store, r.id) = 0 THEN 1 ELSE 0)

\* C9: for both providers save(r) is an upsert by id: afterwards get(r.id)
\* returns exactly r, the records of the other ids are as before, exactly
\* one stored record has the id r.id (inserted if absent, replaced if
\* present), and a second save(r) changes nothing.
C9_SaveUpserts ==
    \A r \in SavedRecords : UpsertLS(r) /\ UpsertIDB(r)

\* a save has just replaced the named record of a store that holds another
\* record as well, on both providers
C9_Witness ==
    /\ lastOp = [name |-> "save", ls |-> "resolved", idb |-> "resolved"]
    /\ Len(StoredLS) = 2
    /\ Len(idb.store) = 2
    /\ LSGet(localStorageItem, 1) = StoreGet(idb.store, 1)
    /\ LSGet(localStorageItem, 1)[1].metadata.name = "n"
    /\ StoredLS[1].id = 2

\* C10: for both providers update(id, partial) on an id that is not stored
\* rejects with the not-found error (on IndexedDB: unless the database
\* cannot be opened, which rejects with the open error) and leaves every
\* stored record as it was.
C10_UpdateMissingRejects ==
    \A id \in Ids, updates \in Partials :
         /\ CountOf(StoredLS, id) = 0 =>
               LSUpdate(localStorageItem, id, updates, now) =
                  [outcome |-> "notFound", item |-> localStorageItem]
         /\ CountOf(idb.store, id) = 0 =>
               \A open \in {"success", "error"} :
                  LET r == IDBUpdate(idb, id, updates, open, now)
                  IN /\ r.outcome \in {"notFound", "openFailed"}
                     /\ r.outcome = "notFound" <=> r.idb.db = "open"
                     /\ r.idb.store = idb.store

\* update has just been refused for an id that is not stored, on both
\* providers, with another record stored
C10_Witness ==
    /\ lastOp = [name |-> "update", ls |-> "notFound", idb |-> "notFound"]
    /\ Len(StoredLS) = 1
    /\ Len(idb.store) = 1

\* the record the claim expects update to store
Overlaid(existing, partial) ==
    [k \in DOMAIN existing |->
        CASE k = "id" -> existing.id
          [] k = "updatedAt" -> now
          [] k \in DOMAIN partial -> partial[k]
          [] OTHER -> existing[k]]

\* one stored sequence is the other with the record of the id replaced
ReplacedIn(before, after, id, record) ==
    /\ Len(after) = Len(before)
    /\ \A i \in 1..Len(before) :
         after[i] = IF before[i].id = id THEN record ELSE before[i]

\* C11: for both providers update(id, partial) on a stored id stores the
\* stored record overlaid with partial, with id kept (whatever id partial
\* carries) and updatedAt set to the current time (whatever updatedAt
\* partial carries); the other records and the number of records are as
\* before.
C11_UpdateMerges ==
    \A id \in Ids, partial \in Partials :
        /\ CountOf(StoredLS, id) = 1 =>
             LET r == LSUpdate(localStorageItem, id, partial, now)
             IN /\ r.outcome = "resolved"
                /\ ReplacedIn(StoredLS, LSGetAll(r.item), id,
                              Overlaid(LSGet(localStorageItem, id)[1], partial))
        /\ CountOf(idb.store, id) = 1 =>
             \A open \in {"success", "error"} :
                LET r == IDBUpdate(idb, id, partial, open, now)
                IN /\ r.outcome = "resolved"
                   /\ ReplacedIn(idb.store, r.idb.store, id,
                                 Overlaid(StoreGet(idb.store, id)[1], partial))

\* update has just rewritten, at a later time, one of two stored records
\* on both providers
C11_Witness ==
    /\ lastOp = [name |-> "update", ls |-> "resolved", idb |-> "resolved"]
    /\ now = 1
    /\ Len(StoredLS) = 2
    /\ Len(idb.store) = 2
    /\ \E i \in 1..2 : StoredLS[i].updatedAt = 1 /\ StoredLS[i].metadata.name = "n"
    /\ \E i \in 1..2 : StoredLS[i].updatedAt = 0

\* save called on each record of the input, in order
RECURSIVE SaveEachLS(_, _)
SaveEachLS(item, records) ==
    IF records = <<>> THEN item
    ELSE SaveEachLS(LSSave(item, Head(records)), Tail(records))

RECURSIVE SaveEachIDB(_, _)
SaveEachIDB(p, records) ==
    IF records = <<>> THEN p
    ELSE SaveEachIDB(IDBSave(p, Head(records), "success").idb, Tail(records))

\* the last record of the input that has the id
LastWith(records, id) ==
    records[CHOOSE i \in 1..Len(records) :
               /\ records[i].id = id
               /\ \A j \in (i + 1)..Len(records) : records[j].id # id]

InputIds(records) == {records[i].id : i \in 1..Len(records)}

\* what the claim says of a store before and after import(records)
Imported(before, after, records) ==
    /\ \A id \in InputIds(records) :
         /\ CountOf(after, id) = 1
         /\ after[FindIndex(after, id)] = LastWith(records, id)
    /\ \A id \in Ids \ InputIds(records) :
         /\ CountOf(after, id) = CountOf(before, id)
         /\ CountOf(before, id) = 1 =>
               after[FindIndex(after, id)] = before[FindIndex(before, id)]

\* C12: for both providers import(records) has the effect of save called on
\* each input record in order: every input id is stored once, holding the
\* last input record of that id; an input record of a stored id overwrites
\* it and makes no duplicate; the stored records of other ids are untouched.
C12_ImportIsRepeatedSave ==
    \A records \in ImportLists :
        /\ LSGetAll(LSImport(localStorageItem, records)) =
              LSGetAll(SaveEachLS(localStorageItem, records))
        /\ Imported(StoredLS, LSGetAll(LSImport(localStorageItem, records)), records)
        /\ \A open \in {"success", "error"} :
             LET r == IDBImport(idb, records, open)
             IN r.outcome = "resolved" =>
                  /\ r.idb.store = SaveEachIDB(idb, records).store
                  /\ Imported(idb.store, r.idb.store, records)

\* import of two records has just run on both providers, and the stores
\* hold a record per id, the first one with a name
C12_Witness ==
    /\ lastOp = [name |-> "import", ls |-> "resolved", idb |-> "resolved", count |-> 2]
    /\ Len(StoredLS) = 2
    /\ Len(idb.store) = 2
    /\ StoredLS[1].id = 2
    /\ StoredLS[1].metadata.name = "n"

\* the options without limit and offset
Unpaged(options) == [options EXCEPT !.limit = <<>>, !.offset = <<>>]

\* the elements at positions offset .. offset+limit-1 of a sequence (counted
\* from 0), all from offset on when limit is omitted
Window(sequence, options) ==
    LET offset == IF options.offset = <<>> THEN 0 ELSE options.offset[1]
        rest == IF Len(sequence) > offset THEN Len(sequence) - offset ELSE 0
        count == IF options.limit # <<>> /\ options.limit[1] < rest
                 THEN options.limit[1] ELSE rest
    IN [i \in 1..count |-> sequence[offset + i]]

\* C13: for both providers and every offset >= 0 and limit >= 0 (0 included)
\* list returns the elements at positions offset .. offset+limit-1 of the
\* filtered-and-sorted sequence, and with limit omitted all elements from
\* position offset on.
C13_Pagination ==
    lastOp.name = "list" =>
        /\ lastOp.lsResult =
             Window(LSList(localStorageItem, Unpaged(lastOp.options)), lastOp.options)
        /\ lastOp.idb = "resolved" =>
             lastOp.idbResult =
               Window(ListFrom(idb.store, Unpaged(lastOp.options)), lastOp.options)

\* The same, for the calls whose limit is not 0.
PaginationUnlessLimitZero ==
    (lastOp.name = "list" /\ lastOp.options.limit # <<0>>) => C13_Pagination

\* the sort key of a record under the options: createdAt unless sortBy
\* names another key; a record without a name sorts as the empty name,
\* before "n"
KeyOf(r, options) ==
    CASE options.sortBy = "updatedAt" -> r.updatedAt
      [] options.sortBy = "name" -> (IF r.metadata.name = Undefined THEN 0 ELSE 1)
      [] OTHER -> r.createdAt

Ascending(options) == options.sortOrder = "asc"

\* the place of an id in the order of first insertion
InsertionRank(id) == CHOOSE i \in 1..Len(inserted) : inserted[i] = id

\* the result is ordered by the key in the chosen direction
OrderedByKey(result, options) ==
    \A i, j \in 1..Len(result) :
        i < j => IF Ascending(options)
                 THEN KeyOf(result[i], options) <= KeyOf(result[j], options)
                 ELSE KeyOf(result[i], options) >= KeyOf(result[j], options)

\* records of equal key are in the order of their first insertion
TiesInInsertionOrder(result, options) ==
    \A i, j \in 1..Len(result) :
        (i < j /\ KeyOf(result[i], options) = KeyOf(result[j], options))
            => InsertionRank(result[i].id) < InsertionRank(result[j].id)

\* C14: for both providers list orders its result by the chosen sort key
\* (default createdAt) in the chosen direction (default descending), and
\* records of equal key appear in the order in which they were first
\* inserted, ascending or descending.
C14_SortedByKeyStable ==
    lastOp.name = "list" =>
        /\ OrderedByKey(lastOp.lsResult, lastOp.options)
        /\ TiesInInsertionOrder(lastOp.lsResult, lastOp.options)
        /\ lastOp.idb = "resolved" =>
             /\ OrderedByKey(lastOp.idbResult, lastOp.options)
             /\ TiesInInsertionOrder(lastOp.idbResult, lastOp.options)

\* What holds of the two providers: both order by the key; the ties are in
\* insertion order on LocalStorageProvider and in id order on
\* IndexedDBProvider.
SortedByKeyTiesPerProvider ==
    lastOp.name = "list" =>
        /\ OrderedByKey(lastOp.lsResult, lastOp.options)
        /\ TiesInInsertionOrder(lastOp.lsResult, lastOp.options)
        /\ lastOp.idb = "resolved" =>
             /\ OrderedByKey(lastOp.idbResult, lastOp.options)
             /\ \A i, j \in 1..Len(lastOp.idbResult) :
                  (/\ i < j
                   /\ KeyOf(lastOp.idbResult[i], lastOp.options) =
                        KeyOf(lastOp.idbResult[j], lastOp.options))
                  => lastOp.idbResult[i].id < lastOp.idbResult[j].id

\* C15: for each provider, in every reachable store state, export() returns
\* the records list() returns when called with no options, in that order.
C15_ExportIsList ==
    lastOp.name = "export" =>
        /\ lastOp.lsResult = LSList(localStorageItem, NoOptions)
        /\ lastOp.idb = "resolved" =>
             lastOp.idbResult = IDBList(idb, NoOptions, "success").value

\* What holds: IndexedDBProvider.export() is list(); the export of
\* LocalStorageProvider holds the records of list(), in insertion order.
ExportIsListUpToOrder ==
    lastOp.name = "export" =>
        /\ {lastOp.lsResult[i] : i \in 1..Len(lastOp.lsResult)} =
             {LSList(localStorageItem, NoOptions)[i] :
                 i \in 1..Len(LSList(localStorageItem, NoOptions))}
        /\ Len(lastOp.lsResult) = Len(LSList(localStorageItem, NoOptions))
        /\ \A i \in 1..Len(lastOp.lsResult) : lastOp.lsResult[i].id = inserted[i]
        /\ lastOp.idb = "resolved" =>
             lastOp.idbResult = IDBList(idb, NoOptions, "success").value

CreatedAts(stored) == {stored[i].createdAt : i \in 1..Len(stored)}

\* what the claim says getStats returns for a store
StatsAsClaimed(stats, stored) ==
    /\ stats.count = Cardinality({stored[i].id : i \in 1..Len(stored)})
    /\ IF stored = <<>>
       THEN stats.count = 0 /\ stats.oldestRecord = <<>> /\ stats.newestRecord = <<>>
       ELSE /\ stats.oldestRecord # <<>>
            /\ stats.newestRecord # <<>>
            /\ stats.oldestRecord[1] \in CreatedAts(stored)
            /\ stats.newestRecord[1] \in CreatedAts(stored)
            /\ \A t \in CreatedAts(stored) :
                 stats.oldestRecord[1] <= t /\ t <= stats.newestRecord[1]

C16_State ==
    lastOp.name = "getStats" =>
        /\ StatsAsClaimed(lastOp.lsResult[1], StoredLS)
        /\ lastOp.idb = "resolved" => StatsAsClaimed(lastOp.idbResult[1], idb.store)

\* getStats right after clear
C16_Step ==
    (lastOp.name = "clear" /\ lastOp'.name = "getStats") =>
        /\ lastOp'.lsResult[1].count = 0
        /\ lastOp'.lsResult[1].oldestRecord = <<>>
        /\ lastOp'.lsResult[1].newestRecord = <<>>
        /\ (lastOp.idb = "resolved" /\ lastOp'.idb = "resolved") =>
             /\ lastOp'.idbResult[1].count = 0
             /\ lastOp'.idbResult[1].oldestRecord = <<>>
             /\ lastOp'.idbResult[1].newestRecord = <<>>

\* C16: for both providers getStats() returns count = the number of stored
\* records, oldestRecord = the least and newestRecord = the greatest
\* createdAt of the stored records; on an empty store, right after clear()
\* in particular, count is 0 and oldestRecord and newestRecord are
\* undefined.
C16_Stats == []C16_State /\ [][C16_Step]_vars

\* getStats has just run on both providers over two records of different
\* createdAt, the newer one inserted first
C16_Witness ==
    /\ lastOp.name = "getStats"
    /\ lastOp.idb = "resolved"
    /\ lastOp.lsResult[1].count = 2
    /\ lastOp.lsResult[1].oldestRecord = <<0>>
    /\ lastOp.lsResult[1].newestRecord = <<1>>
    /\ lastOp.idbResult = lastOp.lsResult
    /\ StoredLS[1].createdAt = 1

\* get(id) returns the same on both providers
SameGet ==
    \A id \in Ids : LSGet(localStorageItem, id) = IDBGet(idb, id, "success").value

\* C17: the two providers are observationally equivalent: after the same
\* calls on both, from empty stores, every get(id), list(options) and
\* getStats() returns equal results, the records in the same order. (The
\* IndexedDB database is one that can be opened.)
C17_ProvidersEquivalent ==
    idb.db = "open" =>
        /\ SameGet
        /\ lastOp.name \in {"list", "getStats"} => lastOp.lsResult = lastOp.idbResult

\* The same, for the list calls under whose sort key no two stored records
\* are tied.
ProvidersEquivalentWithoutTies ==
    (lastOp.name = "list" =>
        \A i, j \in 1..Len(StoredLS) :
            i # j => KeyOf(StoredLS[i], lastOp.options) # KeyOf(StoredLS[j], lastOp.options))
    => C17_ProvidersEquivalent

\* a call executed alone on a provider, from start to end
LSAlone(item, call) ==
    CASE call.name = "save" -> LSSave(item, call.records[1])
      [] call.name = "update" -> LSUpdate(item, call.id, call.updates, now).item
      [] call.name = "delete" -> LSDelete(item, call.id)
      [] call.name = "clear" -> LSClear(item)
      [] call.name = "import" -> LSImport(item, call.records)

IDBAlone(p, call) ==
    CASE call.name = "save" -> IDBSave(p, call.records[1], "success").idb
      [] call.name = "update" -> IDBUpdate(p, call.id, call.updates, "success", now).idb
      [] call.name = "delete" -> IDBDelete(p, call.id, "success").idb
      [] call.name = "clear" -> IDBClear(p, "success").idb
      [] call.name = "import" -> IDBImport(p, call.records, "success").idb

\* the calls executed one after the other, in the order given
RECURSIVE LSSerial(_, _, _)
LSSerial(item, group, order) ==
    IF order = <<>> THEN item
    ELSE LSSerial(LSAlone(item, group[Head(order)]), group, Tail(order))

RECURSIVE IDBSerial(_, _, _)
IDBSerial(p, group, order) ==
    IF order = <<>> THEN p
    ELSE IDBSerial(IDBAlone(p, group[Head(order)]), group, Tail(order))

SerialOrders(n) ==
    {order \in [1..n -> 1..n] : \A i, j \in 1..n : order[i] = order[j] => i = j}

\* all the calls of a group have run to their end
Settled == ops.queue = <<>> /\ ops.called # <<>>

SerialisableOnLocalStorage ==
    (Settled /\ ops.provider = "localStorage") =>
        \E order \in SerialOrders(Len(ops.called)) :
            LSGetAll(localStorageItem) = LSGetAll(LSSerial(ops.start[1], ops.called, order))

SerialisableOnIndexedDB ==
    (Settled /\ ops.provider = "indexedDB") =>
        \E order \in SerialOrders(Len(ops.called)) :
            idb.store = IDBSerial(ops.start[1], ops.called, order).store

\* C18: each storage operation is atomic: whenever calls of save, update,
\* delete, import and clear overlap on one provider, the store they leave is
\* the store that the same calls leave when they are executed one at a time
\* in some order.
C18_OperationsAtomic ==
    SerialisableOnLocalStorage /\ SerialisableOnIndexedDB

\* On IndexedDBProvider the calls that make one transaction (save, delete,
\* clear) are atomic.
OneTransactionCallsAtomic ==
    (\A i \in 1..Len(ops.called) : ops.called[i].name \in {"save", "delete", "clear"})
    => SerialisableOnIndexedDB

\* On LocalStorageProvider, calls that do not overlap are atomic.
AloneIsAtomic ==
    Len(ops.called) = 1 => C18_OperationsAtomic

\* C19: createStorageProvider never rejects; it resolves to an
\* IndexedDBProvider when indexedDB exists and the probing getStats() call
\* succeeds, and to a LocalStorageProvider when indexedDB is absent or the
\* probe fails.
C19_CreateFallsBack ==
    \A i \in 1..Len(created) :
        /\ created[i].settled = "fulfilled"
        /\ created[i].kind \in {"IndexedDBProvider", "LocalStorageProvider"}
        /\ created[i].kind = "IndexedDBProvider" <=>
              (windowDefined /\ indexedDBInWindow /\ created[i].probe = "resolved")
        /\ created[i].probed <=> (windowDefined /\ indexedDBInWindow)

\* one call was given an IndexedDBProvider, another fell back after a probe
\* that failed
C19_Witness ==
    /\ \E i \in 1..Len(created) : created[i].kind = "IndexedDBProvider"
    /\ \E i \in 1..Len(created) :
          created[i].kind = "LocalStorageProvider" /\ created[i].probe = "openFailed"

\* a process without indexedDB was given a LocalStorageProvider without a probe
CreatedWithoutIndexedDB ==
    /\ ~indexedDBInWindow
    /\ created # <<>>
    /\ created[1].kind = "LocalStorageProvider"

\* C20: the backend is selected once per process: every createStorageProvider()
\* call after the first yields the choice of the first, and does not probe
\* the structured store again.
C20_SelectedOnce ==
    \A i \in 2..Len(created) :
        /\ created[i].kind = created[1].kind
        /\ ~created[i].probed

\* The later calls select as the first one did where there is no indexedDB
\* to probe.
SelectedAlikeWithoutIndexedDB ==
    ~(windowDefined /\ indexedDBInWindow) => C20_SelectedOnce

\* every later call yields the choice of the first
SameChoiceLater ==
    \A i \in 2..Len(created) : created[i].kind = created[1].kind

\* the validators, whose result is a QRValidationResult
Validators ==
    {"validateUrl", "validateText", "validateEmail", "validatePhone", "validateContact"}

\* C21: on every return path of validateUrl, validateText, validateEmail,
\* validatePhone and validateContact, valid is true if and only if errors is
\* empty, whatever warnings holds.
C21_ValidIffNoErrors ==
    validation.fn \in Validators =>
        (validation.result[1].valid <=> validation.result[1].errors = <<>>)

\* validateContact found a contact valid and warned about it
C21_Witness ==
    /\ validation.fn = "validateContact"
    /\ validation.result[1].valid
    /\ validation.result[1].warnings # <<>>

\* a validator rejected its input with a warning as well
InvalidWithWarning ==
    /\ validation.fn \in Validators
    /\ ~validation.result[1].valid
    /\ validation.result[1].warnings # <<>>

\* the input with spaces, hyphens, parentheses and dots removed
Stripped(s) == RemoveAll(s, {" ", "-", "(", ")", "."})

\* digits, with an optional '+' in the leading position
DigitsWithLeadingPlus(s) ==
    /\ s # <<>>
    /\ \A i \in 1..Len(s) : s[i] \in Digits \/ (i = 1 /\ s[i] = "+")

\* digits and '+' signs in any position
DigitsAndPluses(s) ==
    /\ s # <<>>
    /\ \A i \in 1..Len(s) : s[i] \in Digits \cup {"+"}

PhoneAsClaimed(Accepted(_)) ==
    validation.fn = "validatePhone" =>
        LET input == validation.input
            result == validation.result[1]
        IN IF Trim(input) = <<>>
           THEN result.valid /\ result.sanitized = << <<>> >>
           ELSE /\ result.sanitized = <<Stripped(input)>>
                /\ result.valid <=> Accepted(Stripped(input))

\* C22: validatePhone returns valid with sanitized "" for an empty or blank
\* input; otherwise sanitized is the input without its spaces, hyphens,
\* parentheses and dots, and the result is valid if and only if that string
\* is made of digits with an optional '+' in the leading position, whatever
\* its length is.
C22_PhoneDigitsLeadingPlus == PhoneAsClaimed(DigitsWithLeadingPlus)

\* The same with a '+' accepted in any position.
PhoneDigitsAndPluses == PhoneAsClaimed(DigitsAndPluses)

\* a number that is too short or too long is valid, and has a warning
PhoneLengthOnlyWarns ==
    /\ validation.fn = "validatePhone"
    /\ validation.result[1].valid
    /\ validation.result[1].warnings = <<"Phone number seems too long">>

TextAsClaimed(Length(_)) ==
    (validation.fn = "validateText" /\ Trim(validation.input) # <<>>) =>
        LET length == Length(validation.input)
            result == validation.result[1]
            tooLong == "Text is too long (max 4000 characters)"
            dense == "Long text may result in dense QR code"
        IN /\ length > MaxTextLength =>
                ~result.valid /\ \E i \in 1..Len(result.errors) : result.errors[i] = tooLong
           /\ length <= MaxTextLength => result.valid /\ result.errors = <<>>
           /\ (\E i \in 1..Len(result.warnings) : result.warnings[i] = dense)
                 <=> (length > DenseTextLength /\ length <= MaxTextLength)

LengthAsGiven(text) == Len(text)
LengthTrimmed(text) == Len(Trim(text))

\* C23: validateText returns invalid with the length error for every
\* non-blank string of more than 4000 characters, valid with no errors for
\* every non-blank string of at most 4000 characters, and the dense-QR
\* warning exactly when the length is above 2000 and at most 4000.
C23_TextLengthLimits == TextAsClaimed(LengthAsGiven)

\* The same of the length that is left after trim().
TextLengthLimitsOfTrimmed == TextAsClaimed(LengthTrimmed)

\* normalizeUrl(input), as the claim words it
NormalizedAsClaimed(input) ==
    LET trimmed == Trim(input)
        lower == ToLowerCase(trimmed)
        begins == \/ (Len(lower) >= 7 /\ SubSeq(lower, 1, 7) = <<"h", "t", "t", "p", ":", "/", "/">>)
                  \/ (Len(lower) >= 8
                      /\ SubSeq(lower, 1, 8) = <<"h", "t", "t", "p", "s", ":", "/", "/">>)
    IN IF trimmed = <<>> THEN <<>>
       ELSE IF begins THEN trimmed
       ELSE <<"h", "t", "t", "p", "s", ":", "/", "/">> \o trimmed

C24_State ==
    validation.fn = "normalizeUrl" =>
        validation.result[1] = NormalizedAsClaimed(validation.input)

C24_Step ==
    (validation.fn = "normalizeUrl" /\ validation'.fn = "normalizeUrl twice")
    => validation'.result = validation.result

\* C24: normalizeUrl returns "" for an empty or whitespace-only input, the
\* trimmed input when it begins with http:// or https:// in any letter case,
\* and "https://" followed by the trimmed input otherwise; applied to its
\* own result it returns that result.
C24_NormalizeUrl == []C24_State /\ [][C24_Step]_vars

\* normalizeUrl was applied twice to an upper-case http:// URL with
\* whitespace around it
C24_Witness ==
    /\ validation.fn = "normalizeUrl twice"
    /\ validation.input = <<" ", "H", "T", "T", "P", ":", "/", "/", "a">>
    /\ validation.result[1] = <<"H", "T", "T", "P", ":", "/", "/", "a">>

\* normalizeUrl was applied twice to a URL without a protocol
NormalizedTwiceWithoutProtocol ==
    /\ validation.fn = "normalizeUrl twice"
    /\ validation.input = <<"a", " ">>
    /\ validation.result[1] = <<"h", "t", "t", "p", "s", ":", "/", "/", "a">>

\* the text of a vCard made of the lines
CardOf(lines) ==
    LET At2(i) == IF i = 1 THEN lines[1] ELSE <<"LF">> \o lines[i]
        RECURSIVE UpTo(_)
        UpTo(n) == IF n = 0 THEN <<>> ELSE UpTo(n - 1) \o At2(n)
    IN UpTo(Len(lines))

\* the vCard of the claim: the lines of the fields that are present, in the
\* fixed order, the URL line carrying UrlOf(url)
CardAsClaimed(c, UrlOf(_)) ==
    LET name == Trim(c.firstName \o <<" ">> \o c.lastName)
        a == IF c.address = <<>> THEN <<>> ELSE c.address
        Sub(f) == IF f = <<>> THEN <<>> ELSE f[1]
        adr == IF a = <<>> THEN <<>>
               ELSE Sub(a[1].street) \o <<";">> \o Sub(a[1].city) \o <<";">>
                    \o Sub(a[1].state) \o <<";">> \o Sub(a[1].zip) \o <<";">>
                    \o Sub(a[1].country)
        hasAdr == a # <<>> /\ adr # <<";", ";", ";", ";">>
    IN IF c.firstName = <<>> /\ c.lastName = <<>> /\ c.phone = <<>> /\ c.email = <<>>
          /\ c.organization = <<>> /\ c.url = <<>>
       THEN <<>>
       ELSE CardOf(<< <<"BEGIN:VCARD">>, <<"VERSION:3.0">> >>
                   \o (IF name # <<>> THEN << <<"FN:">> \o name >> ELSE <<>>)
                   \o (IF name # <<>>
                       THEN << <<"N:">> \o c.lastName \o <<";">> \o c.firstName \o <<";;;">> >>
                       ELSE <<>>)
                   \o (IF c.organization # <<>> THEN << <<"ORG:">> \o c.organization >> ELSE <<>>)
                   \o (IF c.phone # <<>> THEN << <<"TEL:">> \o c.phone >> ELSE <<>>)
                   \o (IF c.email # <<>> THEN << <<"EMAIL:">> \o c.email >> ELSE <<>>)
                   \o (IF c.url # <<>> THEN << <<"URL:">> \o UrlOf(c.url) >> ELSE <<>>)
                   \o (IF hasAdr THEN << <<"ADR:;;">> \o adr >> ELSE <<>>)
                   \o (IF c.birthday # <<>> THEN << <<"BDAY:">> \o c.birthday[1] >> ELSE <<>>)
                   \o (IF c.notes # <<>> THEN << <<"NOTE:">> \o c.notes[1] >> ELSE <<>>)
                   \o << <<"END:VCARD">> >>)

UrlAsGiven(url) == url

\* C25: generateVCard returns "" exactly when firstName, lastName, phone,
\* email, organization and url are all empty; otherwise it returns the lines
\* BEGIN:VCARD, VERSION:3.0, then FN, N, ORG, TEL, EMAIL, URL, ADR, BDAY and
\* NOTE for the fields that are present, then END:VCARD, joined by line
\* feeds, the URL line carrying the normalized form of the url field.
C25_VCardLines ==
    validation.fn = "generateVCard" =>
        validation.result[1] = CardAsClaimed(validation.input, normalizeUrl)

\* The same with the URL line carrying the url field as it was given.
VCardLinesWithUrlAsGiven ==
    validation.fn = "generateVCard" =>
        validation.result[1] = CardAsClaimed(validation.input, UrlAsGiven)

\* the vCard of a contact with only firstName = "a": five lines
VCardOfFirstNameOnly ==
    /\ validation.fn = "generateVCard"
    /\ validation.result[1] = <<"BEGIN:VCARD", "LF", "VERSION:3.0", "LF", "FN:", "a", "LF",
                                "N:", ";", "a", ";;;", "LF", "END:VCARD">>

ProtocolWarning == "Only HTTP and HTTPS protocols are recommended"

\* the input is a URL that parses and whose scheme is not http or https
ParsesWithOtherScheme(input) ==
    LET urlObj == ParseURL(Trim(input))
    IN /\ urlObj.ok
       /\ urlObj.protocol \notin {<<"h", "t", "t", "p", ":">>, <<"h", "t", "t", "p", "s", ":">>}

Warned(result) ==
    \E i \in 1..Len(result.warnings) : result.warnings[i] = ProtocolWarning

\* C26: for an input that parses and has a scheme other than http or https
\* (ftp://host), validateUrl returns valid with the protocol warning, no
\* error, and sanitized equal to the normalized form.
C26_OtherSchemeWarned ==
    (validation.fn = "validateUrl" /\ ParsesWithOtherScheme(validation.input)) =>
        LET result == validation.result[1]
        IN /\ result.valid
           /\ result.errors = <<>>
           /\ Warned(result)
           /\ result.sanitized = <<normalizeUrl(validation.input)>>

\* An ftp:// input that parses is valid, without an error and without the
\* warning, and sanitized is https:// followed by it.
FtpNotWarned ==
    (/\ validation.fn = "validateUrl"
     /\ ParsesWithOtherScheme(validation.input)
     /\ StartsWith(Trim(validation.input), <<"f", "t", "p", ":", "/", "/">>)) =>
        LET result == validation.result[1]
        IN /\ result.valid
           /\ result.errors = <<>>
           /\ ~Warned(result)
           /\ result.sanitized = <<HttpsPrefix \o Trim(validation.input)>>

\* ftp://a was validated
FtpValidated ==
    /\ validation.fn = "validateUrl"
    /\ validation.input = <<"f", "t", "p", ":", "/", "/", "a">>

\* validateUrl gives the protocol warning for no input at all.
NeverProtocolWarning ==
    validation.fn = "validateUrl" => ~Warned(validation.result[1])

\* ------------------------------------------------------------------- C27
Loaded == \E i \in 1..Len(qrious.scripts) : qrious.scripts[i] = "loaded"

\* C27: over any sequence or overlap of isAvailable() and generate() calls on
\* one QRiousStrategy, at most one script load is initiated, and once a load
\* has succeeded no later call initiates another.
C27_LoadedOnce ==
    /\ [](Len(qrious.scripts) <= 1)
    /\ [][Loaded => qrious'.scripts = [i \in 1..Len(qrious.scripts) |->
                                          IF qrious.scripts[i] = "loading"
                                          THEN qrious'.scripts[i]
                                          ELSE qrious.scripts[i]]]_vars

\* Once a script has loaded, no call appends another.
NoLoadAfterSuccess == [][Loaded => Len(qrious'.scripts) = Len(qrious.scripts)]_vars

\* A script is appended only by a call that finds window.QRious undefined,
\* and every script has the one call that appended it.
OneLoadPerCallWithoutLibrary ==
    /\ Len(qrious.scripts) <= Len(qrious.calls)
    /\ \A i \in 1..Len(qrious.scripts) :
          Cardinality({c \in 1..Len(qrious.calls) : qrious.calls[c].script = i}) = 1

\* two loads are under way at once
TwoLoadsOverlap ==
    \E i, j \in 1..Len(qrious.scripts) :
        i # j /\ qrious.scripts[i] = "loading" /\ qrious.scripts[j] = "loading"

\* a call has appended a script after an earlier load failed, with no overlap
LoadAfterFailure ==
    /\ Len(qrious.scripts) = 2
    /\ qrious.scripts[1] = "failed"
    /\ qrious.calls[1].returned # <<>>
    /\ qrious.calls[2].script = 2
    /\ Len(qrious.calls) = 2

\* ------------------------------------------------------------------- C28
\* the calls that end in this step
Completing == hook.pending \ hook'.pending

\* C28: over any interleaving of overlapping generate() calls and reset()
\* calls of useQRGenerator, the completion (success, failure or exception)
\* of a call that is not the most recently started one, or that was pending
\* when reset() ran, changes none of result, error and isGenerating.
C28_LatestWins ==
    [][\A p \in Completing :
          (p.call # hook.started \/ p.call \in hook.superseded) =>
              /\ hook'.result = hook.result
              /\ hook'.error = hook.error
              /\ hook'.isGenerating = hook.isGenerating]_vars

\* a superseded call has completed while the latest call is still pending
C28_Witness ==
    /\ hook.completed \cap hook.superseded # {}
    /\ hook.isGenerating
    /\ \E p \in hook.pending : p.call = hook.started /\ p.call \notin hook.superseded

\* a call that was pending when reset() ran has completed, and nothing shows
CompletedAfterReset ==
    /\ hook.resets > 0
    /\ hook.completed = 1..hook.started
    /\ hook.started > 0
    /\ hook.completed \subseteq hook.superseded
    /\ hook.result = <<>> /\ hook.error = <<>> /\ ~hook.isGenerating

\* The completion of the latest call, with no reset() since, sets result or
\* error and clears isGenerating.
LatestCompletionShows ==
    [][\A p \in Completing :
          (p.call = hook.started /\ p.call \notin hook.superseded) =>
              /\ ~hook'.isGenerating
              /\ hook'.result # <<>> \/ hook'.error # <<>>]_vars

\* ------------------------------------------------------------------- C29
\* the generate invocations of the watched call on a strategy, by path
Generates(sid, phase) ==
    {k \in 1..Len(trace.log) :
        trace.log[k] = [sid |-> sid, method |-> "generate", phase |-> phase]}

\* the strategy the watched call took from the memo
MemoizedSids ==
    {trace.log[k].sid : k \in {j \in 1..Len(trace.log) : trace.log[j].phase = "fast"}}

\* C29: within one QRGeneratorFactory.generate call, every strategy other
\* than the memoized one has generate invoked at most once, and the memoized
\* one at most twice: once on the fast path and, only if that attempt did
\* not succeed, once more at its position in the scan.
C29_GenerateOncePerStrategy ==
    watching =>
        \A sid \in 1..Len(registered) :
            /\ Cardinality(Generates(sid, "scan")) <= 1
            /\ Cardinality(Generates(sid, "fast")) <= (IF sid \in MemoizedSids THEN 1 ELSE 0)
            /\ \A k \in Generates(sid, "scan"), j \in Generates(sid, "fast") :
                  j < k /\ trace.outcomes[j] # "success"

\* The same, for the calls during which no strategy is registered.
GenerateOncePerStrategyOfFixedList ==
    ~trace.listChanged => C29_GenerateOncePerStrategy

\* the memoized strategy has generated on the fast path and again in the scan
MemoizedGeneratedTwice ==
    /\ watching
    /\ ~trace.listChanged
    /\ \E sid \in MemoizedSids :
          Generates(sid, "fast") # {} /\ Generates(sid, "scan") # {}

\* a strategy has generated twice in the scan of one call
GeneratedTwiceInScan ==
    /\ watching
    /\ \E sid \in 1..Len(registered) : Cardinality(Generates(sid, "scan")) = 2

\* ------------------------------------------------------------------- C30
Operations == 1..Len(opener.operations)

\* C30: on one IndexedDBProvider, over any interleaving of overlapping
\* operations, indexedDB.open is invoked at most once: every operation
\* started before the open completes waits on the same pending open, no
\* operation opens a transaction before the open has succeeded, and if the
\* open fails every later operation rejects without a new open attempt.
C30_OpenedOnce ==
    /\ opener.opens <= 1
    /\ \A i \in Operations :
          LET operation == opener.operations[i]
          IN /\ (operation.startedAt \in {"null", "pending"}
                    /\ opener.initPromise = "pending") => operation.pc = "awaiting"
             /\ operation.pc = "transaction" =>
                    /\ operation.dbAtTransaction = "open"
                    /\ opener.initPromise = "fulfilled"
             /\ operation.startedAt = "rejected" =>
                    /\ operation.pc \in {"awaiting", "rejected"}
                    /\ operation.dbAtTransaction \in {"none", "null"}
                    /\ opener.initPromise = "rejected"

\* two operations that started before the open completed have their
\* transactions, after the one open
C30_Witness ==
    /\ opener.opens = 1
    /\ \E i, j \in Operations :
          /\ i # j
          /\ opener.operations[i].startedAt = "null"
          /\ opener.operations[j].startedAt = "pending"
          /\ opener.operations[i].pc = "transaction"
          /\ opener.operations[j].pc = "transaction"

\* the open has failed, and an operation called after that has been rejected
RejectedAfterFailedOpen ==
    /\ opener.opens = 1
    /\ opener.initPromise = "rejected"
    /\ \E i \in Operations :
          /\ opener.operations[i].startedAt = "rejected"
          /\ opener.operations[i].pc = "rejected"

\* A provider whose open has failed stays without a database.
FailedOpenIsFinal ==
    [][opener.initPromise = "rejected" =>
          /\ opener'.initPromise = "rejected"
          /\ opener'.db = "null"
          /\ opener'.opens = opener.opens]_vars

====
